---- MODULE Spec2Model ----
(***************************************************************************)
(* A model of the validator core of Swift-Network: the consensus safety    *)
(* rules, the proposal DAG and the Narwhal engine built on both, the       *)
(* authority's certificate check and the quorum driver.                    *)
(***************************************************************************)
EXTENDS Integers, Naturals, Sequences, FiniteSets, TLC

(***************************************************************************)
(* Bounds of the model.                                                    *)
(***************************************************************************)
\* Rounds of proposals range over 1..MaxRound.
MaxRound == 4
\* Rounds of votes (and of observed certificates) range over 0..MaxVoteRound.
MaxVoteRound == 2
\* The history of signed proposals records at most MaxSigned signings.
MaxSigned == 2
\* SafetyRulesConfig.max_round_gap of the instance under study.
MaxRoundGap == 3
\* SafetyRulesConfig.quorum_size of the instance under study.
QuorumSize == 2
\* A vote carries 0..MaxVoteSigs signatures.
MaxVoteSigs == 2
\* The Dag holds at most MaxNodes proposals.
MaxNodes == 5

\* Epoch numbers range over 0..MaxEpoch.
MaxEpoch == 2
\* A certificate carries at most MaxCertSigs signatures.
MaxCertSigs == 2
\* EpochConfig.max_validator_count of the instance under study.
MaxValidatorCount == 3
\* EpochConfig.min_validator_stake of the instance under study.
MinValidatorStake == 1
\* ValidatorConfig.max_gas_per_tx of the instance under study.
MaxGasPerTx == 1
\* The validator's execution counter is followed up to MaxSequence.
MaxSequence == 2

\* The number of submit_transaction calls followed.
MaxTasks == 2
\* A pending entry of the quorum driver collects at most MaxDriverSigs signatures.
MaxDriverSigs == 2
\* DriverConfig.max_pending_transactions of the instance under study (the
\* capacity of the channel to the transaction processor).
MaxPendingTransactions == 1
\* DriverConfig::default().quorum_size.
DriverQuorumSize == 2

\* Checkpoint sequence numbers range over 0..MaxCheckpointSeq.
MaxCheckpointSeq == 1
\* PruneConfig.max_checkpoints of the instance under study.
PruneMaxCheckpoints == 0
\* PruneConfig.min_checkpoints of the instance under study.
PruneMinCheckpoints == 0

\* Object versions range over 1..MaxVersion.
MaxVersion == 2
\* ObjectMetadata.ref_count is followed up to MaxRefCount.
MaxRefCount == 3
\* The entries of one put_many call number at most MaxPutMany.
MaxPutMany == 2

\* The number of mempool calls that run at the same time.
MaxCalls == 2
\* MempoolConfig.capacity of the instance under study.
Capacity == 2
\* MempoolConfig.per_account_limit of the instance under study.
PerAccountLimit == 2
\* MempoolConfig.transaction_timeout of the instance under study, in ticks.
TransactionTimeout == 1
\* The clock is followed up to MaxTime.
MaxTime == 2
\* The priority queue is followed up to MaxQueued digests.
MaxQueued == 3

(***************************************************************************)
(* Option<T> is a sequence of length 0 (None) or 1 (Some).                 *)
(***************************************************************************)
None == << >>

Some(x) == << x >>

IsSome(o) == Len(o) = 1

Unwrap(o) == o[1]

Max(a, b) == IF a >= b THEN a ELSE b

RECURSIVE SumPow2(_)
\* An injective code of a finite set of naturals.
SumPow2(S) ==
    IF S = {} THEN 0
    ELSE LET x == CHOOSE y \in S : TRUE
         IN  2 ^ x + SumPow2(S \ {x})

(***************************************************************************)
(* Proposals.  A proposal carries a round, an author, the digests of its   *)
(* parents and a signature; its digest covers everything but the           *)
(* signature.  The digest is modelled as an injective code of the covered  *)
(* fields (a collision-free hash).                                         *)
(***************************************************************************)
Rounds == 1 .. MaxRound

VoteRounds == 0 .. MaxVoteRound

\* The authors, numbered in the lexicographic order of their names.
Authors == {1, 2}

ProposalDigest(p) ==
    p.round + (MaxRound + 1) * (p.author + (Cardinality(Authors) + 1) * SumPow2(p.parents))

\* Proposals without parents, of round 1.
RootProposals ==
    { [round |-> 1, author |-> a, parents |-> {}] : a \in Authors }

RootDigests == { ProposalDigest(p) : p \in RootProposals }

\* The authors of the proposals that have parents.
ChildAuthors == {1}

\* The parents a proposal names: the root proposal of the first author
\* alone, or every root proposal.
ParentChoices ==
    { { ProposalDigest(p) : p \in { r \in RootProposals : r.author = 1 } },
      RootDigests }

\* Proposals of any round that name root proposals as parents.
ChildProposals ==
    { [round |-> r, author |-> a, parents |-> P] :
        r \in Rounds, a \in ChildAuthors, P \in ParentChoices }

Proposals == RootProposals \cup ChildProposals

\* A vote: its round and the number of signatures it carries.
Votes == [round : VoteRounds, nsigs : 0 .. MaxVoteSigs]

VARIABLES
    highest_voted_round,      \* SafetyRules.highest_voted_round
    highest_certified_round,  \* SafetyRules.highest_certified_round
    locked_round,             \* SafetyRules.locked_round : Option<Round>
    signed,                   \* history: the proposals sign_proposal returned Ok for
    sign_call,                \* the sign_proposal call in progress
    nodes,                    \* Dag.nodes : digest -> DagNode
    rounds,                   \* Dag.rounds : round -> set of digests
    state,                    \* NarwhalConsensus.state : ConsensusState
    pp_call,                  \* the process_proposal call in progress
    auth_epoch,               \* Authority.state.epoch
    current_epoch,            \* EpochManager.current_epoch : EpochInfo
    next_committee,           \* EpochManager.next_committee : Option<CommitteeInfo>
    store_committee,          \* the committee kept by the AuthorityStore
    last_sequence,            \* Validator.state.last_sequence
    status,                   \* QuorumDriver.status
    tx_channel,               \* the channel from submit_transaction to the processor
    pending_transactions,     \* QuorumDriver.pending_transactions : digest -> entry
    proc,                     \* the process_transaction task spawned for each call
    caller,                   \* each submit_transaction call and what it returned
    exec_calls,               \* history: execute_certificate invocations per digest
    checkpoints,              \* authority CheckpointStore: sequence -> Checkpoint
    state_checkpoints,        \* state CheckpointStore: sequence -> Checkpoint
    objects,                  \* ObjectStore, column family "objects": key -> value
    object_metadata,          \* ObjectStore, column family "object_metadata": id -> metadata
    transactions,             \* Mempool.transactions : digest -> TransactionInfo
    priority_queue,           \* Mempool.priority_queue : priority -> digests
    account_txs,              \* Mempool.account_txs : sender -> count
    mp_locks,                 \* the writer holding each RwLock of the Mempool (0: none),
                              \* and the calls holding a read lock of transactions
                              \* across an await
    mp_call,                  \* the mempool calls in progress and their position
    now,                      \* the clock read by Instant::now()
    cache,                    \* StorageManager.cache_store: key -> value
    the_transaction,          \* the Transaction built by new and sign : Option<Transaction>
    tm_storage,               \* TransactionManager.storage: digest -> TransactionInfo
    processing,               \* TransactionManager.processing: digest -> TransactionInfo
    tm_call,                  \* the execute_transaction calls in progress
    executions,               \* history: executor invocations per digest
    prepare_call,             \* the prepare_next_epoch calls in progress
    hc_call,                  \* the handle_certificate call in progress
    ht_call,                  \* the handle_transaction call in progress
    prune_call,               \* the run of StatePruner::prune in progress
    result                    \* the outcome of the last call

safetyVars == << highest_voted_round, highest_certified_round, locked_round, signed,
                sign_call >>

dagVars == << nodes, rounds >>

consensusVars == << highest_voted_round, highest_certified_round, locked_round,
                   signed, sign_call, nodes, rounds, state, pp_call >>

authorityVars == << auth_epoch, current_epoch, next_committee, store_committee,
                    last_sequence >>

driverVars == << status, tx_channel, pending_transactions, proc, caller, exec_calls >>

checkpointVars == << checkpoints, state_checkpoints >>

objectVars == << objects, object_metadata >>

mempoolVars == << transactions, priority_queue, account_txs, mp_locks, mp_call, now >>

storageVars == << cache >>

transactionVars == << the_transaction >>

managerVars == << tm_storage, processing, tm_call, executions >>

authorityCallVars == << prepare_call, hc_call, ht_call >>

prunerVars == << prune_call >>

vars == << highest_voted_round, highest_certified_round, locked_round, signed,
           sign_call, nodes, rounds, state, pp_call, auth_epoch, current_epoch, next_committee,
           store_committee, last_sequence, status, tx_channel,
           pending_transactions, proc, caller, exec_calls,
           checkpoints, state_checkpoints, objects, object_metadata,
           transactions, priority_queue, account_txs, mp_locks, mp_call, now,
           cache, the_transaction, tm_storage, processing, tm_call, executions,
           prepare_call, hc_call, ht_call, prune_call, result >>

\* What a call returned: Ok (with the value, when it returns a list) or an error.
\* arg is the digest a Dag call was about (0 for the other calls).
Ok(op) == [op |-> op, ok |-> TRUE, err |-> "", arg |-> 0, value |-> << >>]

OkArg(op, a) == [op |-> op, ok |-> TRUE, err |-> "", arg |-> a, value |-> << >>]

OkValue(op, v) == [op |-> op, ok |-> TRUE, err |-> "", arg |-> 0, value |-> v]

Err(op, e) == [op |-> op, ok |-> FALSE, err |-> e, arg |-> 0, value |-> << >>]

ErrArg(op, e, a) == [op |-> op, ok |-> FALSE, err |-> e, arg |-> a, value |-> << >>]

(***************************************************************************)
(* SafetyRules (consensus/safety_rules.rs)                                 *)
(***************************************************************************)
\* verify_proposal, the checks on highest_voted_round with the monotonicity
\* check off by one.
verify_rounds_lax(round, hv) ==
    IF round < hv THEN "Round not monotonic"
    ELSE IF round > hv + MaxRoundGap THEN "Round gap too large"
    ELSE ""

\* verify_proposal, the checks on the highest voted round it has read: the
\* error, "" when they pass.
verify_rounds(round, hv) ==
    IF round <= hv THEN "Round not monotonic"
    ELSE IF round > hv + MaxRoundGap THEN "Round gap too large"
    ELSE ""

\* verify_proposal, the check on the locked round, read under a lock of its
\* own after the checks on the highest voted round.
verify_locked(round, locked) ==
    IF IsSome(locked) /\ round <= Unwrap(locked) THEN "Violates locked round"
    ELSE ""

has_quorum_votes(vote) == vote.nsigs >= QuorumSize

\* No sign_proposal call in progress.
IdleSignCall == [pc |-> "idle", p |-> [round |-> 0, author |-> 0, parents |-> {}],
                 highest_voted |-> 0]

\* sign_proposal is called: verify_proposal reads highest_voted_round and
\* checks the round against it.
SignProposal ==
    \E p \in Proposals :
        LET e == verify_rounds(p.round, highest_voted_round)
        IN  /\ sign_call.pc = "idle"
            /\ Cardinality(signed) < MaxSigned
            /\ IF e # ""
               THEN /\ result' = ErrArg("sign_proposal", e, p.round)
                    /\ UNCHANGED sign_call
               ELSE /\ sign_call' = [pc |-> "locked", p |-> p,
                                     highest_voted |-> highest_voted_round]
                    /\ UNCHANGED result
            /\ UNCHANGED << highest_voted_round, highest_certified_round,
                            locked_round, signed >>
            /\ UNCHANGED << nodes, rounds, state, pp_call >>
            /\ UNCHANGED authorityVars
            /\ UNCHANGED driverVars
            /\ UNCHANGED checkpointVars
            /\ UNCHANGED objectVars
            /\ UNCHANGED mempoolVars
            /\ UNCHANGED transactionVars
            /\ UNCHANGED storageVars
            /\ UNCHANGED prunerVars
            /\ UNCHANGED authorityCallVars
            /\ UNCHANGED managerVars

\* sign_proposal: verify_proposal reads locked_round and checks the round
\* against it, then the signatures are returned; no field is written.
SignCheckLocked ==
    LET p == sign_call.p
        e == verify_locked(p.round, locked_round)
    IN  /\ sign_call.pc = "locked"
        /\ sign_call' = IdleSignCall
        /\ IF e # ""
           THEN /\ result' = ErrArg("sign_proposal", e, p.round)
                /\ UNCHANGED signed
           ELSE /\ result' = OkArg("sign_proposal", p.round)
                /\ signed' = signed \cup {[round |-> p.round, digest |-> ProposalDigest(p)]}
        /\ UNCHANGED << highest_voted_round, highest_certified_round, locked_round >>
        /\ UNCHANGED << nodes, rounds, state, pp_call >>
        /\ UNCHANGED authorityVars
        /\ UNCHANGED driverVars
        /\ UNCHANGED checkpointVars
        /\ UNCHANGED objectVars
        /\ UNCHANGED mempoolVars
        /\ UNCHANGED transactionVars
        /\ UNCHANGED storageVars
        /\ UNCHANGED prunerVars
        /\ UNCHANGED authorityCallVars
        /\ UNCHANGED managerVars

process_vote(vote) ==
    /\ highest_voted_round' = Max(highest_voted_round, vote.round)
    /\ locked_round' = IF has_quorum_votes(vote) THEN Some(vote.round) ELSE locked_round
    /\ result' = Ok("process_vote")

ProcessVote ==
    \E vote \in Votes :
        /\ process_vote(vote)
        /\ UNCHANGED << highest_certified_round, signed, sign_call >>
        /\ UNCHANGED << nodes, rounds, state, pp_call >>
        /\ UNCHANGED authorityVars
        /\ UNCHANGED driverVars
        /\ UNCHANGED checkpointVars
        /\ UNCHANGED objectVars
        /\ UNCHANGED mempoolVars
        /\ UNCHANGED transactionVars
        /\ UNCHANGED storageVars
        /\ UNCHANGED prunerVars
        /\ UNCHANGED authorityCallVars
        /\ UNCHANGED managerVars

update_highest_certified_round(round) ==
    /\ highest_certified_round' = Max(highest_certified_round, round)
    /\ result' = Ok("update_highest_certified_round")

UpdateHighestCertifiedRound ==
    \E round \in VoteRounds :
        /\ update_highest_certified_round(round)
        /\ UNCHANGED << highest_voted_round, locked_round, signed, sign_call >>
        /\ UNCHANGED << nodes, rounds, state, pp_call >>
        /\ UNCHANGED authorityVars
        /\ UNCHANGED driverVars
        /\ UNCHANGED checkpointVars
        /\ UNCHANGED objectVars
        /\ UNCHANGED mempoolVars
        /\ UNCHANGED transactionVars
        /\ UNCHANGED storageVars
        /\ UNCHANGED prunerVars
        /\ UNCHANGED authorityCallVars
        /\ UNCHANGED managerVars

(***************************************************************************)
(* Dag (consensus/dag.rs)                                                  *)
(***************************************************************************)
\* can_commit's threshold on the number of distinct child rounds.
CommitThreshold == 3

DagNode(p) == [proposal |-> p, children |-> {}, committed |-> FALSE]

\* Dag.nodes after add_proposal has inserted p (whose digest is new): the
\* node is stored, then every parent that is stored gains p as a child.
add_proposal_nodes(ns, p) ==
    LET d  == ProposalDigest(p)
        n1 == (d :> DagNode(p)) @@ ns
    IN  [x \in DOMAIN n1 |->
            IF x \in p.parents
            THEN [n1[x] EXCEPT !.children = @ \cup {d}]
            ELSE n1[x]]

\* Dag.rounds after add_proposal has inserted p.
add_proposal_rounds(rs, p) ==
    LET d == ProposalDigest(p)
    IN  IF p.round \in DOMAIN rs
        THEN [rs EXCEPT ![p.round] = @ \cup {d}]
        ELSE (p.round :> {d}) @@ rs

\* A Dag that does not look for the digest before it inserts.
add_proposal_error_nocheck(ns, p) == ""

\* The error add_proposal returns, "" for Ok.
add_proposal_error(ns, p) ==
    IF ProposalDigest(p) \in DOMAIN ns THEN "Duplicate proposal" ELSE ""

can_commit(ns, d) ==
    IF d \in DOMAIN ns
    THEN /\ \A parent \in ns[d].proposal.parents :
                parent \in DOMAIN ns => ns[parent].committed
         /\ LET child_rounds ==
                    { ns[c].proposal.round : c \in ns[d].children \cap DOMAIN ns }
            IN  Cardinality(child_rounds) >= CommitThreshold
    ELSE FALSE

\* The digests of the proposals find_commit_candidates returns.
commit_candidates(ns) ==
    { d \in DOMAIN ns : ~ ns[d].committed /\ can_commit(ns, d) }

\* Every enumeration of a finite set as a list without repetition.
Orderings(S) ==
    { q \in [1 .. Cardinality(S) -> S] : \A x \in S : \E i \in DOMAIN q : q[i] = x }

\* find_commit_candidates iterates over a HashMap: the candidates come in any order.
find_commit_candidates(ns) ==
    { [i \in DOMAIN q |-> ns[q[i]].proposal] : q \in Orderings(commit_candidates(ns)) }

AddProposal ==
    \E p \in Proposals :
        LET e == add_proposal_error(nodes, p)
        IN  /\ Cardinality(DOMAIN nodes) < MaxNodes \/ e # ""
            /\ IF e # ""
               THEN /\ result' = ErrArg("add_proposal", e, ProposalDigest(p))
                    /\ UNCHANGED << nodes, rounds >>
               ELSE /\ result' = OkArg("add_proposal", ProposalDigest(p))
                    /\ nodes' = add_proposal_nodes(nodes, p)
                    /\ rounds' = add_proposal_rounds(rounds, p)
            /\ UNCHANGED << highest_voted_round, highest_certified_round,
                            locked_round, signed, state, sign_call, pp_call >>
            /\ UNCHANGED authorityVars
            /\ UNCHANGED driverVars
            /\ UNCHANGED checkpointVars
            /\ UNCHANGED objectVars
            /\ UNCHANGED mempoolVars
        /\ UNCHANGED driverVars
        /\ UNCHANGED transactionVars
        /\ UNCHANGED storageVars
        /\ UNCHANGED prunerVars
        /\ UNCHANGED authorityCallVars
        /\ UNCHANGED managerVars

FindCommitCandidates ==
    \E c \in find_commit_candidates(nodes) :
        /\ result' = OkValue("find_commit_candidates", c)
        /\ UNCHANGED << highest_voted_round, highest_certified_round,
                        locked_round, signed, nodes, rounds, state, sign_call, pp_call >>
        /\ UNCHANGED authorityVars
        /\ UNCHANGED driverVars
        /\ UNCHANGED checkpointVars
        /\ UNCHANGED objectVars
        /\ UNCHANGED mempoolVars
        /\ UNCHANGED transactionVars
        /\ UNCHANGED storageVars
        /\ UNCHANGED prunerVars
        /\ UNCHANGED authorityCallVars
        /\ UNCHANGED managerVars

(***************************************************************************)
(* NarwhalConsensus (consensus/narwhal.rs)                                 *)
(***************************************************************************)
\* create_certificate: the proposal with the signatures sign_proposal returns.
create_certificate(p) ==
    [proposal |-> p, signatures |-> << "validator1", "validator2" >>]

\* No process_proposal call in progress.
IdleProposalCall == [pc |-> "idle", p |-> [round |-> 0, author |-> 0, parents |-> {}],
                     c |-> << >>, k |-> 0]

\* A process_proposal call returns.
ProposalReturn(r) ==
    /\ pp_call' = IdleProposalCall
    /\ result' = r

\* process_proposal is called: verify_proposal reads highest_voted_round
\* with blocking_read, which panics on a thread that runs a tokio runtime,
\* and checks the round against it.
ProcessProposal ==
    \E p \in Proposals, in_runtime \in BOOLEAN :
        LET e == verify_rounds(p.round, highest_voted_round)
        IN  /\ pp_call.pc = "idle"
            /\ Cardinality(DOMAIN nodes) < MaxNodes \/ ProposalDigest(p) \in DOMAIN nodes
            /\ IF in_runtime
               THEN ProposalReturn(Err("process_proposal", "panic: cannot block the current thread"))
               ELSE IF e # ""
               THEN ProposalReturn(Err("process_proposal", e))
               ELSE /\ pp_call' = [IdleProposalCall EXCEPT !.pc = "verify_locked", !.p = p]
                    /\ UNCHANGED result
            /\ UNCHANGED << highest_voted_round, highest_certified_round, locked_round,
                            signed, sign_call, nodes, rounds, state >>
            /\ UNCHANGED authorityVars
            /\ UNCHANGED driverVars
            /\ UNCHANGED checkpointVars
            /\ UNCHANGED objectVars
            /\ UNCHANGED mempoolVars
            /\ UNCHANGED transactionVars
            /\ UNCHANGED storageVars
            /\ UNCHANGED prunerVars
            /\ UNCHANGED authorityCallVars
            /\ UNCHANGED managerVars

\* process_proposal: verify_proposal reads locked_round and checks the
\* round against it.
ProposalVerifyLocked ==
    LET e == verify_locked(pp_call.p.round, locked_round)
    IN  /\ pp_call.pc = "verify_locked"
        /\ IF e # ""
           THEN ProposalReturn(Err("process_proposal", e))
           ELSE /\ pp_call' = [pp_call EXCEPT !.pc = "add"]
                /\ UNCHANGED result
        /\ UNCHANGED << highest_voted_round, highest_certified_round, locked_round,
                        signed, sign_call, nodes, rounds, state >>
        /\ UNCHANGED authorityVars
        /\ UNCHANGED driverVars
        /\ UNCHANGED checkpointVars
        /\ UNCHANGED objectVars
        /\ UNCHANGED mempoolVars
        /\ UNCHANGED transactionVars
        /\ UNCHANGED storageVars
        /\ UNCHANGED prunerVars
        /\ UNCHANGED authorityCallVars
        /\ UNCHANGED managerVars

\* process_proposal: takes the write lock of the DAG, adds the proposal and
\* asks for the commit candidates; with none, try_commit returns None and
\* the call Ok.
ProposalAdd ==
    LET p == pp_call.p
        e == add_proposal_error(nodes, p)
    IN  /\ pp_call.pc = "add"
        /\ IF e # ""
           THEN /\ ProposalReturn(Err("process_proposal", e))
                /\ UNCHANGED << nodes, rounds >>
           ELSE /\ nodes' = add_proposal_nodes(nodes, p)
                /\ rounds' = add_proposal_rounds(rounds, p)
                /\ \E c \in find_commit_candidates(nodes') :
                       IF c = << >>
                       THEN ProposalReturn(Ok("process_proposal"))
                       ELSE /\ pp_call' = [pp_call EXCEPT !.pc = "sign_rounds",
                                                          !.c = c, !.k = 1]
                            /\ UNCHANGED result
        /\ UNCHANGED << highest_voted_round, highest_certified_round, locked_round,
                        signed, sign_call, state >>
        /\ UNCHANGED authorityVars
        /\ UNCHANGED driverVars
        /\ UNCHANGED checkpointVars
        /\ UNCHANGED objectVars
        /\ UNCHANGED mempoolVars
        /\ UNCHANGED transactionVars
        /\ UNCHANGED storageVars
        /\ UNCHANGED prunerVars
        /\ UNCHANGED authorityCallVars
        /\ UNCHANGED managerVars

\* try_commit, create_certificate of the candidate at hand: sign_proposal
\* reads highest_voted_round; its error ends the call.
ProposalSignRounds ==
    LET e == verify_rounds(pp_call.c[pp_call.k].round, highest_voted_round)
    IN  /\ pp_call.pc = "sign_rounds"
        /\ IF e # ""
           THEN ProposalReturn(Err("process_proposal", e))
           ELSE /\ pp_call' = [pp_call EXCEPT !.pc = "sign_locked"]
                /\ UNCHANGED result
        /\ UNCHANGED << highest_voted_round, highest_certified_round, locked_round,
                        signed, sign_call, nodes, rounds, state >>
        /\ UNCHANGED authorityVars
        /\ UNCHANGED driverVars
        /\ UNCHANGED checkpointVars
        /\ UNCHANGED objectVars
        /\ UNCHANGED mempoolVars
        /\ UNCHANGED transactionVars
        /\ UNCHANGED storageVars
        /\ UNCHANGED prunerVars
        /\ UNCHANGED authorityCallVars
        /\ UNCHANGED managerVars

\* try_commit, create_certificate of the candidate at hand: sign_proposal
\* reads locked_round and signs; after the last candidate the call goes on
\* to ask for the write lock of the state.
ProposalSignLocked ==
    LET c == pp_call.c
        k == pp_call.k
        e == verify_locked(c[k].round, locked_round)
    IN  /\ pp_call.pc = "sign_locked"
        /\ IF e # ""
           THEN /\ ProposalReturn(Err("process_proposal", e))
                /\ UNCHANGED << signed, state >>
           ELSE /\ signed' = signed \cup
                        {[round |-> c[k].round, digest |-> ProposalDigest(c[k])]}
                /\ IF k < Len(c)
                   THEN /\ pp_call' = [pp_call EXCEPT !.pc = "sign_rounds", !.k = k + 1]
                        /\ UNCHANGED << state, result >>
                   ELSE /\ pp_call' = [pp_call EXCEPT !.pc = "commit"]
                        /\ UNCHANGED << state, result >>
        /\ UNCHANGED << highest_voted_round, highest_certified_round, locked_round,
                        sign_call, nodes, rounds >>
        /\ UNCHANGED authorityVars
        /\ UNCHANGED driverVars
        /\ UNCHANGED checkpointVars
        /\ UNCHANGED objectVars
        /\ UNCHANGED mempoolVars
        /\ UNCHANGED transactionVars
        /\ UNCHANGED storageVars
        /\ UNCHANGED prunerVars
        /\ UNCHANGED authorityCallVars
        /\ UNCHANGED managerVars

\* process_proposal: takes the write lock of the state, appends the
\* certificates, sets last_committed_round and returns Ok.
ProposalCommit ==
    LET c == pp_call.c
    IN  /\ pp_call.pc = "commit"
        /\ state' = [state EXCEPT
                !.committed_certificates =
                    @ \o [i \in DOMAIN c |-> create_certificate(c[i])],
                !.last_committed_round = pp_call.p.round]
        /\ ProposalReturn(Ok("process_proposal"))
        /\ UNCHANGED << highest_voted_round, highest_certified_round, locked_round,
                        signed, sign_call, nodes, rounds >>
        /\ UNCHANGED authorityVars
        /\ UNCHANGED driverVars
        /\ UNCHANGED checkpointVars
        /\ UNCHANGED objectVars
        /\ UNCHANGED mempoolVars
        /\ UNCHANGED transactionVars
        /\ UNCHANGED storageVars
        /\ UNCHANGED prunerVars
        /\ UNCHANGED authorityCallVars
        /\ UNCHANGED managerVars

(***************************************************************************)
(* Authority, EpochManager and Validator (authority/*.rs)                  *)
(***************************************************************************)
\* The public keys of the validators and of other signers.
PublicKeys == {1, 2, 3}

\* The stake each key holds when it is a validator.
KeyStake == (1 :> 2) @@ (2 :> 1) @@ (3 :> 1)

\* The validator lists handed to prepare_next_epoch and put_committee: a
\* validator list is a function from its keys to their stakes.
ValidatorLists == { [k \in S |-> KeyStake[k]] : S \in {{1, 2}, {1, 2, 3}} }

RECURSIVE SumStake(_)
SumStake(vs) ==
    IF DOMAIN vs = {} THEN 0
    ELSE LET k == CHOOSE x \in DOMAIN vs : TRUE
         IN  vs[k] + SumStake([x \in DOMAIN vs \ {k} |-> vs[x]])

\* The committee prepare_next_epoch builds from a validator list.
CommitteeInfo(epoch, vs) ==
    [epoch |-> epoch, validators |-> vs,
     quorum_threshold |-> (SumStake(vs) * 2) \div 3 + 1,
     total_stake |-> SumStake(vs)]

\* EpochInfo::genesis: no validator, quorum threshold 0.
GenesisCommittee ==
    [epoch |-> 0, validators |-> << >>, quorum_threshold |-> 0, total_stake |-> 0]

GenesisEpoch == [epoch |-> 0, committee |-> GenesisCommittee]

has_quorum(committee, stake) == stake >= committee.quorum_threshold

\* A signature of a certificate: the key it is presented for and whether
\* it verifies for that key over the digest of the transaction.
SigEntries == [key : PublicKeys, valid : BOOLEAN]

RECURSIVE SeqsUpTo(_, _)
SeqsUpTo(S, n) ==
    IF n = 0 THEN { << >> }
    ELSE LET shorter == SeqsUpTo(S, n - 1)
         IN  shorter \cup { Append(q, x) : q \in { r \in shorter : Len(r) = n - 1 }, x \in S }

\* A transaction: its epoch, whether verify_signature() holds, its gas budget.
\* The gas budget is at the validator's limit or one above it.
Transactions ==
    [epoch : 0 .. 1, sig_ok : BOOLEAN, gas_budget : {MaxGasPerTx, MaxGasPerTx + 1}]

Certificates == [transaction : Transactions, signatures : SeqsUpTo(SigEntries, MaxCertSigs)]

\* Authority::verify_transaction with the comparison of the epochs dropped.
verify_transaction_any_epoch(tx) ==
    IF ~ tx.sig_ok THEN "InvalidSignature"
    ELSE ""

\* Authority::verify_transaction: the error, "" for Ok.
verify_transaction(tx) ==
    IF tx.epoch # auth_epoch THEN "InvalidEpoch"
    ELSE IF ~ tx.sig_ok THEN "InvalidSignature"
    ELSE ""

RECURSIVE counted_stake(_, _)
\* The loop of verify_certificate: the stake added for every signature whose
\* key is a validator of the committee, one addition per signature.
counted_stake(sigs, committee) ==
    IF sigs = << >> THEN 0
    ELSE (IF Head(sigs).key \in DOMAIN committee.validators
          THEN committee.validators[Head(sigs).key] ELSE 0)
         + counted_stake(Tail(sigs), committee)

\* The signature loop and the quorum test shared by Authority::verify_certificate
\* and Validator::verify_certificate: the error, "" for Ok.
verify_signatures(sigs, committee) ==
    IF \E i \in DOMAIN sigs : ~ sigs[i].valid THEN "InvalidSignature"
    ELSE IF ~ has_quorum(committee, counted_stake(sigs, committee)) THEN "InvalidStake"
    ELSE ""

\* Validator::verify_certificate, against the committee of the store; the
\* validator's own epoch is the 0 it is built with.
validator_verify_certificate(cert) ==
    IF cert.transaction.epoch # 0 THEN "InvalidEpoch"
    ELSE IF ~ IsSome(store_committee) THEN "StoreError"
    ELSE verify_signatures(cert.signatures, Unwrap(store_committee))

\* Validator::execute_transaction; runs tells whether the runtime executes
\* the transaction without error.  The effects carry epoch_change: None, so
\* neither handler of the authority ever calls update_epoch.  The result
\* records the epoch the transaction is stamped with.
validator_execute_transaction(op, tx, runs, value) ==
    IF tx.gas_budget > MaxGasPerTx
    THEN /\ result' = ErrArg(op, "ExceedGasLimit", tx.epoch)
         /\ UNCHANGED last_sequence
    ELSE IF ~ runs
    THEN /\ result' = ErrArg(op, "ExecutionError", tx.epoch)
         /\ UNCHANGED last_sequence
    ELSE /\ last_sequence' = last_sequence + 1
         /\ result' = [OkValue(op, value) EXCEPT !.arg = tx.epoch]

\* No handle_certificate call in progress.
IdleCertificateCall ==
    [pc |-> "idle",
     cert |-> [transaction |-> [epoch |-> 0, sig_ok |-> FALSE, gas_budget |-> MaxGasPerTx],
               signatures |-> << >>]]

\* No handle_transaction call in progress.
IdleTransactionCall ==
    [pc |-> "idle", tx |-> [epoch |-> 0, sig_ok |-> FALSE, gas_budget |-> MaxGasPerTx]]

\* The executions the calls in progress may still make.
ExecutionsInProgress ==
    (IF hc_call.pc = "idle" THEN 0 ELSE 1) + (IF ht_call.pc = "idle" THEN 0 ELSE 1)

\* handle_certificate is called: Authority::verify_certificate starts with
\* verify_transaction, against the epoch of the authority.
HandleCertificate ==
    \E cert \in Certificates :
        LET e == verify_transaction(cert.transaction)
        IN  /\ hc_call.pc = "idle"
            /\ last_sequence + ExecutionsInProgress < MaxSequence
            /\ IF e # ""
               THEN /\ result' = ErrArg("handle_certificate", e, cert.transaction.epoch)
                    /\ UNCHANGED hc_call
               ELSE /\ hc_call' = [pc |-> "verify_signatures", cert |-> cert]
                    /\ UNCHANGED result
            /\ UNCHANGED authorityVars
            /\ UNCHANGED << prepare_call, ht_call >>
            /\ UNCHANGED consensusVars
            /\ UNCHANGED driverVars
            /\ UNCHANGED checkpointVars
            /\ UNCHANGED objectVars
            /\ UNCHANGED mempoolVars
            /\ UNCHANGED transactionVars
            /\ UNCHANGED storageVars
            /\ UNCHANGED prunerVars
            /\ UNCHANGED managerVars

\* handle_certificate, Authority::verify_certificate: reads the committee
\* of the epoch manager as it is by now, verifies the signatures and tests
\* the quorum.
AuthorityVerifySignatures ==
    LET cert == hc_call.cert
        e == verify_signatures(cert.signatures, current_epoch.committee)
    IN  /\ hc_call.pc = "verify_signatures"
        /\ IF e # ""
           THEN /\ result' = ErrArg("handle_certificate", e, cert.transaction.epoch)
                /\ hc_call' = IdleCertificateCall
           ELSE /\ hc_call' = [hc_call EXCEPT !.pc = "validator_verify"]
                /\ UNCHANGED result
        /\ UNCHANGED authorityVars
        /\ UNCHANGED << prepare_call, ht_call >>
        /\ UNCHANGED consensusVars
        /\ UNCHANGED driverVars
        /\ UNCHANGED checkpointVars
        /\ UNCHANGED objectVars
        /\ UNCHANGED mempoolVars
        /\ UNCHANGED transactionVars
        /\ UNCHANGED storageVars
        /\ UNCHANGED prunerVars
        /\ UNCHANGED managerVars

\* handle_certificate, execute_certificate: Validator::verify_certificate,
\* against the committee the store holds by now.
ValidatorVerifyCertificate ==
    LET cert == hc_call.cert
        e == validator_verify_certificate(cert)
    IN  /\ hc_call.pc = "validator_verify"
        /\ IF e # ""
           THEN /\ result' = ErrArg("handle_certificate", e, cert.transaction.epoch)
                /\ hc_call' = IdleCertificateCall
           ELSE /\ hc_call' = [hc_call EXCEPT !.pc = "execute"]
                /\ UNCHANGED result
        /\ UNCHANGED authorityVars
        /\ UNCHANGED << prepare_call, ht_call >>
        /\ UNCHANGED consensusVars
        /\ UNCHANGED driverVars
        /\ UNCHANGED checkpointVars
        /\ UNCHANGED objectVars
        /\ UNCHANGED mempoolVars
        /\ UNCHANGED transactionVars
        /\ UNCHANGED storageVars
        /\ UNCHANGED prunerVars
        /\ UNCHANGED managerVars

\* handle_certificate, execute_certificate: executes the transaction.
ValidatorExecuteCertificate ==
    \E runs \in BOOLEAN :
        /\ hc_call.pc = "execute"
        /\ validator_execute_transaction("handle_certificate", hc_call.cert.transaction,
                                         runs, hc_call.cert.signatures)
        /\ hc_call' = IdleCertificateCall
        /\ UNCHANGED << auth_epoch, current_epoch, next_committee, store_committee >>
        /\ UNCHANGED << prepare_call, ht_call >>
        /\ UNCHANGED consensusVars
        /\ UNCHANGED driverVars
        /\ UNCHANGED checkpointVars
        /\ UNCHANGED objectVars
        /\ UNCHANGED mempoolVars
        /\ UNCHANGED transactionVars
        /\ UNCHANGED storageVars
        /\ UNCHANGED prunerVars
        /\ UNCHANGED managerVars

\* handle_transaction is called: Authority::verify_transaction, against
\* the epoch of the authority.
HandleTransaction ==
    \E tx \in Transactions :
        LET e == verify_transaction(tx)
        IN  /\ ht_call.pc = "idle"
            /\ last_sequence + ExecutionsInProgress < MaxSequence
            /\ IF e # ""
               THEN /\ result' = ErrArg("handle_transaction", e, tx.epoch)
                    /\ UNCHANGED ht_call
               ELSE /\ ht_call' = [pc |-> "execute", tx |-> tx]
                    /\ UNCHANGED result
            /\ UNCHANGED authorityVars
            /\ UNCHANGED << prepare_call, hc_call >>
            /\ UNCHANGED consensusVars
            /\ UNCHANGED driverVars
            /\ UNCHANGED checkpointVars
            /\ UNCHANGED objectVars
            /\ UNCHANGED mempoolVars
            /\ UNCHANGED transactionVars
            /\ UNCHANGED storageVars
            /\ UNCHANGED prunerVars
            /\ UNCHANGED managerVars

\* handle_transaction: Validator::execute_transaction and the return.
ExecuteTransaction ==
    \E runs \in BOOLEAN :
        /\ ht_call.pc = "execute"
        /\ validator_execute_transaction("handle_transaction", ht_call.tx, runs, << >>)
        /\ ht_call' = IdleTransactionCall
        /\ UNCHANGED << auth_epoch, current_epoch, next_committee, store_committee >>
        /\ UNCHANGED << prepare_call, hc_call >>
        /\ UNCHANGED consensusVars
        /\ UNCHANGED driverVars
        /\ UNCHANGED checkpointVars
        /\ UNCHANGED objectVars
        /\ UNCHANGED mempoolVars
        /\ UNCHANGED transactionVars
        /\ UNCHANGED storageVars
        /\ UNCHANGED prunerVars
        /\ UNCHANGED managerVars

\* The epoch infos an effect may carry in epoch_change: the epoch, and
\* whether the committee holds the key of the authority.
EpochChanges == [epoch : 0 .. MaxEpoch, in_committee : BOOLEAN]

\* Authority::update_epoch, the step handle_transaction and
\* handle_certificate take for effects that carry an epoch change: writes
\* the epoch, then looks for the stake of the authority in the committee.
\* Validator::execute_transaction builds every effects with epoch_change:
\* None, so the handlers of the authority as it stands never take the step;
\* it is studied for effects that do carry one.
UpdateEpoch ==
    \E new_epoch \in EpochChanges :
        /\ auth_epoch' = new_epoch.epoch
        /\ result' = IF new_epoch.in_committee
                     THEN OkArg("update_epoch", new_epoch.epoch)
                     ELSE ErrArg("update_epoch", "InvalidStake", new_epoch.epoch)
        /\ UNCHANGED << current_epoch, next_committee, store_committee, last_sequence >>
        /\ UNCHANGED authorityCallVars
        /\ UNCHANGED consensusVars
        /\ UNCHANGED driverVars
        /\ UNCHANGED checkpointVars
        /\ UNCHANGED objectVars
        /\ UNCHANGED mempoolVars
        /\ UNCHANGED transactionVars
        /\ UNCHANGED storageVars
        /\ UNCHANGED prunerVars
        /\ UNCHANGED managerVars

\* EpochManager::prepare_next_epoch: the error, "" for Ok.
prepare_next_epoch_error(vs) ==
    IF Cardinality(DOMAIN vs) > MaxValidatorCount THEN "TooManyValidators"
    ELSE IF \E k \in DOMAIN vs : vs[k] < MinValidatorStake THEN "InsufficientValidatorStake"
    ELSE ""

\* EpochManager::start_new_epoch: takes the next committee, if there is one.
StartNewEpoch ==
    /\ current_epoch.epoch < MaxEpoch
    /\ next_committee' = None
    /\ IF IsSome(next_committee)
       THEN /\ current_epoch' = [epoch |-> current_epoch.epoch + 1,
                                 committee |-> Unwrap(next_committee)]
            /\ result' = Ok("start_new_epoch")
       ELSE /\ result' = Err("start_new_epoch", "NoNextEpochCommittee")
            /\ UNCHANGED current_epoch
    /\ UNCHANGED << auth_epoch, store_committee, last_sequence >>
    /\ UNCHANGED consensusVars
    /\ UNCHANGED driverVars
    /\ UNCHANGED checkpointVars
    /\ UNCHANGED objectVars
    /\ UNCHANGED mempoolVars
    /\ UNCHANGED transactionVars
    /\ UNCHANGED storageVars
    /\ UNCHANGED prunerVars
    /\ UNCHANGED authorityCallVars
    /\ UNCHANGED managerVars

\* The most prepare_next_epoch calls in progress together.
MaxEpochCalls == 2

\* The prepare_next_epoch calls that may be in progress together.
EpochCalls == 1 .. MaxEpochCalls

\* A call slot with no call in progress.
IdlePrepareCall == [pc |-> "idle", committee |-> GenesisCommittee]

\* prepare_next_epoch is called: validates the validators and builds the
\* committee from the epoch number it reads under a read lock of its own.
PrepareBuild(c) ==
    \E vs \in ValidatorLists :
        LET e == prepare_next_epoch_error(vs)
        IN  /\ prepare_call[c].pc = "idle"
            /\ IF e # ""
               THEN /\ result' = Err("prepare_next_epoch", e)
                    /\ UNCHANGED prepare_call
               ELSE /\ prepare_call' = [prepare_call EXCEPT ![c] =
                            [pc |-> "store",
                             committee |-> CommitteeInfo(current_epoch.epoch + 1, vs)]]
                    /\ UNCHANGED result
            /\ UNCHANGED authorityVars
            /\ UNCHANGED << hc_call, ht_call >>
            /\ UNCHANGED consensusVars
            /\ UNCHANGED driverVars
            /\ UNCHANGED checkpointVars
            /\ UNCHANGED objectVars
            /\ UNCHANGED mempoolVars
            /\ UNCHANGED transactionVars
            /\ UNCHANGED storageVars
            /\ UNCHANGED prunerVars
            /\ UNCHANGED managerVars

\* prepare_next_epoch: takes the write lock of next_committee, stores the
\* committee it built and returns it.
PrepareStore(c) ==
    /\ prepare_call[c].pc = "store"
    /\ next_committee' = Some(prepare_call[c].committee)
    /\ prepare_call' = [prepare_call EXCEPT ![c] = IdlePrepareCall]
    /\ result' = OkArg("prepare_next_epoch", prepare_call[c].committee.epoch)
    /\ UNCHANGED << auth_epoch, current_epoch, store_committee, last_sequence >>
    /\ UNCHANGED << hc_call, ht_call >>
    /\ UNCHANGED consensusVars
    /\ UNCHANGED driverVars
    /\ UNCHANGED checkpointVars
    /\ UNCHANGED objectVars
    /\ UNCHANGED mempoolVars
    /\ UNCHANGED transactionVars
    /\ UNCHANGED storageVars
    /\ UNCHANGED prunerVars
    /\ UNCHANGED managerVars

\* AuthorityStore::put_committee.
PutCommittee ==
    \E vs \in ValidatorLists :
        /\ store_committee' = Some(CommitteeInfo(auth_epoch, vs))
        /\ result' = Ok("put_committee")
        /\ UNCHANGED << auth_epoch, current_epoch, next_committee, last_sequence >>
        /\ UNCHANGED consensusVars
    /\ UNCHANGED driverVars
    /\ UNCHANGED checkpointVars
    /\ UNCHANGED objectVars
    /\ UNCHANGED mempoolVars
        /\ UNCHANGED driverVars
        /\ UNCHANGED transactionVars
        /\ UNCHANGED storageVars
        /\ UNCHANGED prunerVars
        /\ UNCHANGED authorityCallVars
        /\ UNCHANGED managerVars

(***************************************************************************)
(* QuorumDriver (quorum_driver/driver.rs)                                  *)
(***************************************************************************)
Tasks == 1 .. MaxTasks

\* The digests of the transactions submitted.
TxDigests == {1, 2}

\* The validators of the committee the driver collects signatures from.
DriverCommittee == {1, 2}

\* The signatures delivered to handle_signature: a verifying signature of
\* each key (key 3 is no validator) and one of key 1 that does not verify.
DriverSigEntries == { e \in SigEntries : e.valid \/ e.key = 1 }

NoCert == [signatures |-> << >>, sender |-> 0]

IdleProc == [pc |-> "none", digest |-> 0, cert |-> NoCert]

\* A task that has ended has dropped its locals.
DoneProc == [pc |-> "done", digest |-> 0, cert |-> NoCert]

\* The tasks whose response sender is still held somewhere: by the channel,
\* by their running process_transaction task, by a pending entry or by the
\* copy of an entry another task took in wait_for_quorum.
SenderAlive(t) ==
    \/ \E i \in DOMAIN tx_channel : tx_channel[i] = t
    \/ proc[t].pc \notin {"none", "done"}
    \/ \E d \in DOMAIN pending_transactions : pending_transactions[d].sender = t
    \/ \E u \in Tasks : proc[u].pc \in {"execute", "respond"} /\ proc[u].cert.sender = t

\* response_sender.send(r) to task t's channel: the call waiting on it
\* returns r; a call that has returned has dropped its receiver.
Deliver(t, r) ==
    IF caller[t].st = "waiting"
    THEN [caller EXCEPT ![t] = [st |-> "returned", res |-> r]]
    ELSE caller

\* submit_transaction: sends the transaction to the processor and waits.
SubmitTransaction(t) ==
    \E d \in TxDigests :
        /\ caller[t].st = "idle"
        /\ Len(tx_channel) < MaxPendingTransactions
        /\ tx_channel' = Append(tx_channel, t)
        /\ proc' = [proc EXCEPT ![t] = [IdleProc EXCEPT !.digest = d]]
        /\ caller' = [caller EXCEPT ![t] = [st |-> "waiting", res |-> ""]]
        /\ UNCHANGED result
        /\ UNCHANGED << status, pending_transactions, exec_calls >>
        /\ UNCHANGED consensusVars
        /\ UNCHANGED authorityVars
        /\ UNCHANGED checkpointVars
        /\ UNCHANGED objectVars
        /\ UNCHANGED mempoolVars
        /\ UNCHANGED transactionVars
        /\ UNCHANGED storageVars
        /\ UNCHANGED prunerVars
        /\ UNCHANGED authorityCallVars
        /\ UNCHANGED managerVars

\* start_transaction_processor: receives a transaction and spawns its task.
ProcessorRecv ==
    /\ tx_channel # << >>
    /\ tx_channel' = Tail(tx_channel)
    /\ proc' = [proc EXCEPT ![Head(tx_channel)].pc = "start"]
    /\ UNCHANGED result
    /\ UNCHANGED << status, pending_transactions, caller, exec_calls >>
    /\ UNCHANGED consensusVars
    /\ UNCHANGED authorityVars
    /\ UNCHANGED checkpointVars
    /\ UNCHANGED objectVars
    /\ UNCHANGED mempoolVars
    /\ UNCHANGED transactionVars
    /\ UNCHANGED storageVars
    /\ UNCHANGED prunerVars
    /\ UNCHANGED authorityCallVars
    /\ UNCHANGED managerVars

\* process_transaction: reads the status; when the driver is not active
\* the error is returned and sent to the caller.
ProcessStart(t) ==
    /\ proc[t].pc = "start"
    /\ IF status # "Active"
       THEN /\ proc' = [proc EXCEPT ![t] = DoneProc]
            /\ caller' = Deliver(t, "Driver not active")
       ELSE /\ proc' = [proc EXCEPT ![t].pc = "insert"]
            /\ UNCHANGED caller
    /\ UNCHANGED result
    /\ UNCHANGED << status, tx_channel, pending_transactions, exec_calls >>
    /\ UNCHANGED consensusVars
    /\ UNCHANGED authorityVars
    /\ UNCHANGED checkpointVars
    /\ UNCHANGED objectVars
    /\ UNCHANGED mempoolVars
    /\ UNCHANGED transactionVars
    /\ UNCHANGED storageVars
    /\ UNCHANGED prunerVars
    /\ UNCHANGED authorityCallVars
    /\ UNCHANGED managerVars

\* process_transaction: takes the write lock of the pending table and
\* inserts the entry.
ProcessInsert(t) ==
    /\ proc[t].pc = "insert"
    /\ proc' = [proc EXCEPT ![t].pc = "broadcast"]
    /\ pending_transactions' =
            (proc[t].digest :> [signatures |-> << >>, sender |-> t])
                @@ pending_transactions
    /\ UNCHANGED result
    /\ UNCHANGED << status, tx_channel, caller, exec_calls >>
    /\ UNCHANGED consensusVars
    /\ UNCHANGED authorityVars
    /\ UNCHANGED checkpointVars
    /\ UNCHANGED objectVars
    /\ UNCHANGED mempoolVars
    /\ UNCHANGED transactionVars
    /\ UNCHANGED storageVars
    /\ UNCHANGED prunerVars
    /\ UNCHANGED authorityCallVars
    /\ UNCHANGED managerVars

\* network.broadcast: on an error process_transaction returns it at once.
ProcessBroadcast(t) ==
    \E sent \in BOOLEAN :
        /\ proc[t].pc = "broadcast"
        /\ IF sent
           THEN /\ proc' = [proc EXCEPT ![t].pc = "wait"]
                /\ UNCHANGED caller
           ELSE /\ proc' = [proc EXCEPT ![t] = DoneProc]
                /\ caller' = Deliver(t, "NetworkError")
        /\ UNCHANGED result
        /\ UNCHANGED << status, tx_channel, pending_transactions, exec_calls >>
        /\ UNCHANGED consensusVars
        /\ UNCHANGED authorityVars
        /\ UNCHANGED checkpointVars
        /\ UNCHANGED objectVars
        /\ UNCHANGED mempoolVars
        /\ UNCHANGED transactionVars
        /\ UNCHANGED storageVars
        /\ UNCHANGED prunerVars
        /\ UNCHANGED authorityCallVars
        /\ UNCHANGED managerVars

\* One turn of the loop of wait_for_quorum that leaves the loop: the entry
\* is gone (the error is dropped by process_transaction, which returns Ok),
\* or it holds quorum_size signatures: the certificate is created and
\* execute_certificate is called with it, with no await in between.
WaitForQuorum(t) ==
    LET d == proc[t].digest
    IN  /\ proc[t].pc = "wait"
        /\ IF d \notin DOMAIN pending_transactions
           THEN /\ proc' = [proc EXCEPT ![t] = DoneProc]
                /\ UNCHANGED exec_calls
           ELSE /\ Len(pending_transactions[d].signatures) >= DriverQuorumSize
                /\ proc' = [proc EXCEPT ![t].pc = "execute",
                                        ![t].cert = pending_transactions[d]]
                /\ exec_calls' = [exec_calls EXCEPT ![d] = @ + 1]
        /\ UNCHANGED result
        /\ UNCHANGED << status, tx_channel, pending_transactions, caller >>
        /\ UNCHANGED consensusVars
        /\ UNCHANGED authorityVars
        /\ UNCHANGED checkpointVars
        /\ UNCHANGED objectVars
        /\ UNCHANGED mempoolVars
        /\ UNCHANGED transactionVars
        /\ UNCHANGED storageVars
        /\ UNCHANGED prunerVars
        /\ UNCHANGED authorityCallVars
        /\ UNCHANGED managerVars

\* execute_certificate returns; on an error wait_for_quorum returns it and
\* process_transaction drops it.
ExecuteCertificate(t) ==
    \E executed \in BOOLEAN :
        /\ proc[t].pc = "execute"
        /\ proc' = [proc EXCEPT ![t] =
                        IF executed THEN [@ EXCEPT !.pc = "respond"] ELSE DoneProc]
        /\ UNCHANGED result
        /\ UNCHANGED << status, tx_channel, pending_transactions, caller, exec_calls >>
        /\ UNCHANGED consensusVars
        /\ UNCHANGED authorityVars
        /\ UNCHANGED checkpointVars
        /\ UNCHANGED objectVars
        /\ UNCHANGED mempoolVars
        /\ UNCHANGED transactionVars
        /\ UNCHANGED storageVars
        /\ UNCHANGED prunerVars
        /\ UNCHANGED authorityCallVars
        /\ UNCHANGED managerVars

\* pending.response_sender.send(Ok(effects)): to the sender of the entry
\* read; when its receiver is gone the error ends wait_for_quorum.
SendResponse(t) ==
    LET to == proc[t].cert.sender
    IN  /\ proc[t].pc = "respond"
        /\ caller' = Deliver(to, "Ok")
        /\ proc' = [proc EXCEPT ![t] =
                        IF caller[to].st = "waiting"
                        THEN [@ EXCEPT !.pc = "remove", !.cert = NoCert]
                        ELSE DoneProc]
        /\ UNCHANGED result
        /\ UNCHANGED << status, tx_channel, pending_transactions, exec_calls >>
        /\ UNCHANGED consensusVars
        /\ UNCHANGED authorityVars
        /\ UNCHANGED checkpointVars
        /\ UNCHANGED objectVars
        /\ UNCHANGED mempoolVars
        /\ UNCHANGED transactionVars
        /\ UNCHANGED storageVars
        /\ UNCHANGED prunerVars
        /\ UNCHANGED authorityCallVars
        /\ UNCHANGED managerVars

\* The removal that ends wait_for_quorum.
RemovePending(t) ==
    /\ proc[t].pc = "remove"
    /\ pending_transactions' =
            [d \in DOMAIN pending_transactions \ {proc[t].digest} |-> pending_transactions[d]]
    /\ proc' = [proc EXCEPT ![t] = DoneProc]
    /\ UNCHANGED result
    /\ UNCHANGED << status, tx_channel, caller, exec_calls >>
    /\ UNCHANGED consensusVars
    /\ UNCHANGED authorityVars
    /\ UNCHANGED checkpointVars
    /\ UNCHANGED objectVars
    /\ UNCHANGED mempoolVars
    /\ UNCHANGED transactionVars
    /\ UNCHANGED storageVars
    /\ UNCHANGED prunerVars
    /\ UNCHANGED authorityCallVars
    /\ UNCHANGED managerVars

\* The timeout of process_transaction fires while wait_for_quorum is at
\* one of its awaits: the entry is removed and process_transaction returns
\* the Timeout error.
QuorumTimeout(t) ==
    /\ proc[t].pc \in {"wait", "execute", "respond", "remove"}
    /\ pending_transactions' =
            [d \in DOMAIN pending_transactions \ {proc[t].digest} |-> pending_transactions[d]]
    /\ proc' = [proc EXCEPT ![t] = [DoneProc EXCEPT !.pc = "send_timeout"]]
    /\ UNCHANGED result
    /\ UNCHANGED << status, tx_channel, caller, exec_calls >>
    /\ UNCHANGED consensusVars
    /\ UNCHANGED authorityVars
    /\ UNCHANGED checkpointVars
    /\ UNCHANGED objectVars
    /\ UNCHANGED mempoolVars
    /\ UNCHANGED transactionVars
    /\ UNCHANGED storageVars
    /\ UNCHANGED prunerVars
    /\ UNCHANGED authorityCallVars
    /\ UNCHANGED managerVars

\* The spawned task sends the Timeout error process_transaction returned.
SendTimeout(t) ==
    /\ proc[t].pc = "send_timeout"
    /\ proc' = [proc EXCEPT ![t] = DoneProc]
    /\ caller' = Deliver(t, "Timeout")
    /\ UNCHANGED result
    /\ UNCHANGED << status, tx_channel, pending_transactions, exec_calls >>
    /\ UNCHANGED consensusVars
    /\ UNCHANGED authorityVars
    /\ UNCHANGED checkpointVars
    /\ UNCHANGED objectVars
    /\ UNCHANGED mempoolVars
    /\ UNCHANGED transactionVars
    /\ UNCHANGED storageVars
    /\ UNCHANGED prunerVars
    /\ UNCHANGED authorityCallVars
    /\ UNCHANGED managerVars

\* The receiver of a call finds every sender dropped without a response.
ResponseChannelClosed(t) ==
    /\ caller[t].st = "waiting"
    /\ ~ SenderAlive(t)
    /\ caller' = [caller EXCEPT ![t] = [st |-> "returned", res |-> "Response channel closed"]]
    /\ UNCHANGED result
    /\ UNCHANGED << status, tx_channel, pending_transactions, proc, exec_calls >>
    /\ UNCHANGED consensusVars
    /\ UNCHANGED authorityVars
    /\ UNCHANGED checkpointVars
    /\ UNCHANGED objectVars
    /\ UNCHANGED mempoolVars
    /\ UNCHANGED transactionVars
    /\ UNCHANGED storageVars
    /\ UNCHANGED prunerVars
    /\ UNCHANGED authorityCallVars
    /\ UNCHANGED managerVars

\* handle_signature: pushes the signature on the entry of the digest.
HandleSignature ==
    \E d \in TxDigests, e \in DriverSigEntries :
        /\ IF d \notin DOMAIN pending_transactions
           THEN /\ result' = Err("handle_signature", "Transaction not found")
                /\ UNCHANGED pending_transactions
           ELSE /\ Len(pending_transactions[d].signatures) < MaxDriverSigs
                /\ pending_transactions' =
                        [pending_transactions EXCEPT ![d].signatures = Append(@, e)]
                /\ result' = Ok("handle_signature")
        /\ UNCHANGED << status, tx_channel, proc, caller, exec_calls >>
        /\ UNCHANGED consensusVars
        /\ UNCHANGED authorityVars
        /\ UNCHANGED checkpointVars
        /\ UNCHANGED objectVars
        /\ UNCHANGED mempoolVars
        /\ UNCHANGED transactionVars
        /\ UNCHANGED storageVars
        /\ UNCHANGED prunerVars
        /\ UNCHANGED authorityCallVars
        /\ UNCHANGED managerVars

SetStatus ==
    \E st \in {"Active", "Paused", "Stopped"} :
        /\ status' = st
        /\ UNCHANGED result
        /\ UNCHANGED << tx_channel, pending_transactions, proc, caller, exec_calls >>
        /\ UNCHANGED consensusVars
        /\ UNCHANGED authorityVars
        /\ UNCHANGED checkpointVars
        /\ UNCHANGED objectVars
        /\ UNCHANGED mempoolVars
        /\ UNCHANGED transactionVars
        /\ UNCHANGED storageVars
        /\ UNCHANGED prunerVars
        /\ UNCHANGED authorityCallVars
        /\ UNCHANGED managerVars

NextDriver ==
    \/ \E t \in Tasks : SubmitTransaction(t)
    \/ ProcessorRecv
    \/ \E t \in Tasks : ProcessStart(t)
    \/ \E t \in Tasks : ProcessInsert(t)
    \/ \E t \in Tasks : ProcessBroadcast(t)
    \/ \E t \in Tasks : WaitForQuorum(t)
    \/ \E t \in Tasks : ExecuteCertificate(t)
    \/ \E t \in Tasks : SendResponse(t)
    \/ \E t \in Tasks : RemovePending(t)
    \/ \E t \in Tasks : QuorumTimeout(t)
    \/ \E t \in Tasks : SendTimeout(t)
    \/ \E t \in Tasks : ResponseChannelClosed(t)
    \/ HandleSignature
    \/ SetStatus

(***************************************************************************)
(* Checkpoints (authority/checkpoint_store.rs, state/checkpoint.rs)        *)
(***************************************************************************)
\* What a checkpoint carries besides its sequence number and digests: its
\* timestamp, transactions, effects, state root and epoch.
CheckpointContents == {0, 1, 2}

\* The effects of each content: the first creates object 1, the second
\* modifies object 2, the third deletes object 1.
CheckpointEffects ==
    (0 :> << [created_objects |-> {1}, modified_objects |-> {}, deleted_objects |-> {}] >>)
    @@ (1 :> << [created_objects |-> {}, modified_objects |-> {2}, deleted_objects |-> {}] >>)
    @@ (2 :> << [created_objects |-> {}, modified_objects |-> {}, deleted_objects |-> {1}] >>)

\* The number of values of a byte of a key.
ByteBase == 256

\* A sequence number whose little-endian key has a low byte of 0.
FarSequence == ByteBase

\* compute_digest: the hash of the sequence number, the previous digest
\* when there is one, and the content; the digest field is not hashed.
compute_digest(c) ==
    c.sequence + (FarSequence + 1) *
        (c.content + Cardinality(CheckpointContents) *
            (IF IsSome(c.previous_digest) THEN 1 + Unwrap(c.previous_digest) ELSE 0))

\* Checkpoint::new
CheckpointNew(sequence, previous_digest, content) ==
    LET c == [sequence |-> sequence, digest |-> 0,
              previous_digest |-> previous_digest, content |-> content]
    IN  [c EXCEPT !.digest = compute_digest(c)]

\* The checkpoints Checkpoint::new builds for a sequence number: with no
\* previous digest or the digest of a checkpoint of the sequence before.
RECURSIVE NewCheckpoints(_)
NewCheckpoints(n) ==
    { CheckpointNew(n, p, c) :
        p \in {None} \cup (IF n = 0 THEN {}
                           ELSE { Some(x.digest) : x \in NewCheckpoints(n - 1) }),
        c \in CheckpointContents }

\* The checkpoints handed to put_checkpoint: built by Checkpoint::new, or
\* with a digest field that was changed afterwards.
Checkpoints ==
    LET new == UNION { NewCheckpoints(n) : n \in 0 .. MaxCheckpointSeq }
    IN  new \cup { [c EXCEPT !.digest = @ + 1] : c \in new }

\* Checkpoint::verify with the comparison dropped.
checkpoint_verify_skip(c) == TRUE

\* Checkpoint::verify
checkpoint_verify(c) == c.digest = compute_digest(c)

\* CheckpointStore::put_checkpoint of the authority: the write and the
\* value returned.
put_checkpoint(c) ==
    IF ~ checkpoint_verify(c)
    THEN /\ result' = [Err("put_checkpoint", "Invalid checkpoint digest")
                         EXCEPT !.value = << c >>]
         /\ UNCHANGED checkpoints
    ELSE /\ checkpoints' = (c.sequence :> c) @@ checkpoints
         /\ result' = OkValue("put_checkpoint", << c >>)

\* CheckpointStore::put_checkpoint of the authority.
PutCheckpoint ==
    \E c \in Checkpoints :
        /\ put_checkpoint(c)
        /\ UNCHANGED state_checkpoints
        /\ UNCHANGED consensusVars
        /\ UNCHANGED authorityVars
        /\ UNCHANGED driverVars
        /\ UNCHANGED objectVars
        /\ UNCHANGED mempoolVars
        /\ UNCHANGED transactionVars
        /\ UNCHANGED storageVars
        /\ UNCHANGED prunerVars
        /\ UNCHANGED authorityCallVars
        /\ UNCHANGED managerVars

\* CheckpointStore::put_checkpoint of the state module.
StatePutCheckpoint ==
    \E c \in Checkpoints :
        /\ IF c.digest # compute_digest(c)
           THEN /\ result' = [Err("state_put_checkpoint", "Invalid checkpoint digest")
                                EXCEPT !.value = << c >>]
                /\ UNCHANGED state_checkpoints
           ELSE /\ state_checkpoints' = (c.sequence :> c) @@ state_checkpoints
                /\ result' = OkValue("state_put_checkpoint", << c >>)
        /\ UNCHANGED checkpoints
        /\ UNCHANGED consensusVars
        /\ UNCHANGED authorityVars
        /\ UNCHANGED driverVars
        /\ UNCHANGED objectVars
        /\ UNCHANGED mempoolVars
        /\ UNCHANGED transactionVars
        /\ UNCHANGED storageVars
        /\ UNCHANGED prunerVars
        /\ UNCHANGED authorityCallVars
        /\ UNCHANGED managerVars

\* StateStore::put_checkpoint, the store the state CheckpointStore and the
\* pruner are built on: writes the record, with no look at its digest.
StateStorePutCheckpoint ==
    \E c \in Checkpoints :
        /\ state_checkpoints' = (c.sequence :> c) @@ state_checkpoints
        /\ result' = OkValue("state_store_put_checkpoint", << c >>)
        /\ UNCHANGED checkpoints
        /\ UNCHANGED consensusVars
        /\ UNCHANGED authorityVars
        /\ UNCHANGED driverVars
        /\ UNCHANGED objectVars
        /\ UNCHANGED mempoolVars
        /\ UNCHANGED transactionVars
        /\ UNCHANGED storageVars
        /\ UNCHANGED prunerVars
        /\ UNCHANGED authorityCallVars
        /\ UNCHANGED managerVars

\* A store without the record of a sequence number.
without_checkpoint(store, sequence) ==
    [n \in DOMAIN store \ {sequence} |-> store[n]]

\* StateStore::delete_checkpoint.
StateDeleteCheckpoint ==
    \E sequence \in 0 .. MaxCheckpointSeq :
        /\ state_checkpoints' = without_checkpoint(state_checkpoints, sequence)
        /\ result' = OkArg("state_delete_checkpoint", sequence)
        /\ UNCHANGED prunerVars
        /\ UNCHANGED checkpoints
        /\ UNCHANGED consensusVars
        /\ UNCHANGED authorityVars
        /\ UNCHANGED driverVars
        /\ UNCHANGED objectVars
        /\ UNCHANGED mempoolVars
        /\ UNCHANGED transactionVars
        /\ UNCHANGED storageVars
        /\ UNCHANGED authorityCallVars
        /\ UNCHANGED managerVars

\* No run of the pruner in progress.
IdlePruneCall == [pc |-> "idle", sequence |-> 0, target |-> 0]

\* StateStore::get_latest_checkpoint: the sequence number of the latest
\* checkpoint, the stored one of the greatest sequence number.
state_latest_sequence(store) ==
    CHOOSE n \in DOMAIN store : \A k \in DOMAIN store : k <= n

\* StatePruner::prune, up to the loop: reads the latest checkpoint and
\* computes the target; returns when there is nothing to prune.
PruneStart ==
    /\ prune_call.pc = "idle"
    /\ IF state_checkpoints = << >>
       THEN /\ result' = Ok("prune")
            /\ UNCHANGED prune_call
       ELSE LET latest == state_latest_sequence(state_checkpoints)
                target == latest - PruneMaxCheckpoints
            IN  IF latest <= PruneMaxCheckpoints \/ target < PruneMinCheckpoints
                THEN /\ result' = Ok("prune")
                     /\ UNCHANGED prune_call
                ELSE /\ prune_call' = [pc |-> "delete", sequence |-> 0, target |-> target]
                     /\ UNCHANGED result
    /\ UNCHANGED state_checkpoints
    /\ UNCHANGED checkpoints
    /\ UNCHANGED consensusVars
    /\ UNCHANGED authorityVars
    /\ UNCHANGED driverVars
    /\ UNCHANGED objectVars
    /\ UNCHANGED mempoolVars
    /\ UNCHANGED transactionVars
    /\ UNCHANGED storageVars
    /\ UNCHANGED authorityCallVars
    /\ UNCHANGED managerVars

\* StatePruner::prune, one turn of the loop: deletes the checkpoint of the
\* next sequence number below the target; after the last one the call goes
\* on to prune_state.
PruneDelete ==
    /\ prune_call.pc = "delete"
    /\ state_checkpoints' = without_checkpoint(state_checkpoints, prune_call.sequence)
    /\ prune_call' = IF prune_call.sequence + 1 < prune_call.target
                     THEN [prune_call EXCEPT !.sequence = @ + 1]
                     ELSE [prune_call EXCEPT !.pc = "prune_state"]
    /\ UNCHANGED result
    /\ UNCHANGED checkpoints
    /\ UNCHANGED consensusVars
    /\ UNCHANGED authorityVars
    /\ UNCHANGED driverVars
    /\ UNCHANGED objectVars
    /\ UNCHANGED mempoolVars
    /\ UNCHANGED transactionVars
    /\ UNCHANGED storageVars
    /\ UNCHANGED authorityCallVars
    /\ UNCHANGED managerVars

\* StatePruner::prune: prune_state of the target, which touches no
\* checkpoint, and the return.
PruneState ==
    /\ prune_call.pc = "prune_state"
    /\ prune_call' = IdlePruneCall
    /\ result' = OkArg("prune", prune_call.target)
    /\ UNCHANGED state_checkpoints
    /\ UNCHANGED checkpoints
    /\ UNCHANGED consensusVars
    /\ UNCHANGED authorityVars
    /\ UNCHANGED driverVars
    /\ UNCHANGED objectVars
    /\ UNCHANGED mempoolVars
    /\ UNCHANGED transactionVars
    /\ UNCHANGED storageVars
    /\ UNCHANGED authorityCallVars
    /\ UNCHANGED managerVars

\* The checkpoints of the far sequence number Checkpoint::new builds, and
\* the same with a digest field changed afterwards.
FarCheckpoints ==
    LET new == { CheckpointNew(FarSequence, None, c) : c \in CheckpointContents }
    IN  new \cup { [c EXCEPT !.digest = @ + 1] : c \in new }

\* CheckpointStore::put_checkpoint of the authority, for a checkpoint of
\* the far sequence number.
PutFarCheckpoint ==
    \E c \in FarCheckpoints :
        /\ put_checkpoint(c)
        /\ UNCHANGED state_checkpoints
        /\ UNCHANGED consensusVars
        /\ UNCHANGED authorityVars
        /\ UNCHANGED driverVars
        /\ UNCHANGED objectVars
        /\ UNCHANGED mempoolVars
        /\ UNCHANGED transactionVars
        /\ UNCHANGED storageVars
        /\ UNCHANGED prunerVars
        /\ UNCHANGED authorityCallVars
        /\ UNCHANGED managerVars

\* One turn of the loop of get_state_at_checkpoint over the effects: the
\* created and the modified objects are inserted, the deleted ones removed.
\* The state is the set of the ids it maps.
apply_effect(st, effect) ==
    ((st \cup effect.created_objects) \cup effect.modified_objects)
        \ effect.deleted_objects

RECURSIVE apply_effects(_, _)
apply_effects(st, effects) ==
    IF effects = << >> THEN st
    ELSE apply_effects(apply_effect(st, Head(effects)), Tail(effects))

\* CheckpointStore::get_state_at_checkpoint: the effects of the checkpoint
\* of the sequence number, applied to the empty state.
GetStateAtCheckpoint ==
    \E sequence \in (0 .. MaxCheckpointSeq) \cup {FarSequence} :
        /\ IF sequence \notin DOMAIN checkpoints
           THEN result' = ErrArg("get_state_at_checkpoint", "CheckpointNotFound", sequence)
           ELSE result' = [OkValue("get_state_at_checkpoint",
                                   apply_effects({}, CheckpointEffects[checkpoints[sequence].content]))
                             EXCEPT !.arg = sequence]
        /\ UNCHANGED checkpointVars
        /\ UNCHANGED consensusVars
        /\ UNCHANGED authorityVars
        /\ UNCHANGED driverVars
        /\ UNCHANGED objectVars
        /\ UNCHANGED mempoolVars
        /\ UNCHANGED transactionVars
        /\ UNCHANGED storageVars
        /\ UNCHANGED prunerVars
        /\ UNCHANGED authorityCallVars
        /\ UNCHANGED managerVars

\* The key of a checkpoint, sequence.to_le_bytes(): the bytes of the
\* sequence number, lowest first.  The sequence numbers of the model are
\* below ByteBase * ByteBase, so that the other six bytes are 0.
to_le_bytes(n) == << n % ByteBase, (n \div ByteBase) % ByteBase >>

\* The order of the keys of a column family: bytewise, first byte first.
key_less(a, b) ==
    \E i \in DOMAIN a :
        /\ a[i] < b[i]
        /\ \A j \in 1 .. (i - 1) : a[j] = b[j]

\* iter.seek_to_last(): the sequence number of the last key.
seek_to_last(stored) ==
    CHOOSE n \in stored :
        \A o \in stored \ {n} : key_less(to_le_bytes(o), to_le_bytes(n))

\* CheckpointStore::get_latest_checkpoint
GetLatestCheckpoint ==
    /\ result' = OkValue("get_latest_checkpoint",
                         IF DOMAIN checkpoints = {} THEN None
                         ELSE Some(checkpoints[seek_to_last(DOMAIN checkpoints)]))
    /\ UNCHANGED checkpointVars
    /\ UNCHANGED consensusVars
    /\ UNCHANGED authorityVars
    /\ UNCHANGED driverVars
    /\ UNCHANGED objectVars
    /\ UNCHANGED mempoolVars
    /\ UNCHANGED transactionVars
    /\ UNCHANGED storageVars
    /\ UNCHANGED prunerVars
    /\ UNCHANGED authorityCallVars
    /\ UNCHANGED managerVars

NextCheckpointReads ==
    \/ PutCheckpoint
    \/ PutFarCheckpoint
    \/ GetStateAtCheckpoint
    \/ GetLatestCheckpoint

NextCheckpoint == PutCheckpoint

\* The store of the state module: its CheckpointStore, the StateStore under
\* it and the pruner.  The store of the authority shares nothing with it
\* and has NextCheckpoint.
NextCheckpoints ==
    \/ StatePutCheckpoint
    \/ StateStorePutCheckpoint
    \/ StateDeleteCheckpoint
    \/ PruneStart
    \/ PruneDelete
    \/ PruneState

(***************************************************************************)
(* ObjectStore (storage/object_store.rs)                                   *)
(***************************************************************************)
ObjectIDs == {1}

ObjectKeys == [id : ObjectIDs, version : 1 .. MaxVersion]

ObjectValues == {1, 2}

\* ObjectStore::get_metadata
get_metadata(meta, id) == IF id \in DOMAIN meta THEN Some(meta[id]) ELSE None

\* ObjectStore::get: none for an id marked deleted, else the stored value.
object_get(objs, meta, key) ==
    LET metadata == get_metadata(meta, key.id)
    IN  IF IsSome(metadata) /\ Unwrap(metadata).deleted THEN None
        ELSE IF key \in DOMAIN objs THEN Some(objs[key])
        ELSE None

\* The metadata ObjectStore::put writes.
put_metadata(meta, key) ==
    LET found == get_metadata(meta, key.id)
        old   == IF IsSome(found) THEN Unwrap(found)
                 ELSE [latest_version |-> key.version, deleted |-> FALSE, ref_count |-> 0]
    IN  [old EXCEPT !.latest_version = Max(key.version, old.latest_version),
                    !.ref_count = @ + 1]

\* ObjectStore::get
ObjectGet ==
    \E key \in ObjectKeys :
        /\ result' = OkValue("object_get", << key, object_get(objects, object_metadata, key) >>)
        /\ UNCHANGED objectVars
        /\ UNCHANGED consensusVars
        /\ UNCHANGED authorityVars
        /\ UNCHANGED driverVars
        /\ UNCHANGED checkpointVars
        /\ UNCHANGED mempoolVars
        /\ UNCHANGED transactionVars
        /\ UNCHANGED storageVars
        /\ UNCHANGED prunerVars
        /\ UNCHANGED authorityCallVars
        /\ UNCHANGED managerVars

\* The writes of ObjectStore::put: one batch writes the value and the
\* metadata.
object_put(key, value) ==
    /\ put_metadata(object_metadata, key).ref_count <= MaxRefCount
    /\ objects' = (key :> value) @@ objects
    /\ object_metadata' = (key.id :> put_metadata(object_metadata, key)) @@ object_metadata

\* The writes of ObjectStore::delete: marks the id deleted and removes the
\* key's value; nothing happens for an id without metadata.
object_delete(key) ==
    IF key.id \in DOMAIN object_metadata
    THEN /\ object_metadata' =
                [object_metadata EXCEPT ![key.id].deleted = TRUE,
                                        ![key.id].ref_count = Max(@ - 1, 0)]
         /\ objects' = [k \in DOMAIN objects \ {key} |-> objects[k]]
    ELSE UNCHANGED objectVars

\* ObjectStore::put
ObjectPut ==
    \E key \in ObjectKeys, value \in ObjectValues :
        /\ object_put(key, value)
        /\ result' = OkValue("object_put", << key, value >>)
        /\ UNCHANGED consensusVars
        /\ UNCHANGED authorityVars
        /\ UNCHANGED driverVars
        /\ UNCHANGED checkpointVars
        /\ UNCHANGED mempoolVars
        /\ UNCHANGED transactionVars
        /\ UNCHANGED storageVars
        /\ UNCHANGED prunerVars
        /\ UNCHANGED authorityCallVars
        /\ UNCHANGED managerVars

\* ObjectStore::delete
ObjectDelete ==
    \E key \in ObjectKeys :
        /\ object_delete(key)
        /\ result' = OkValue("object_delete", << key >>)
        /\ UNCHANGED consensusVars
        /\ UNCHANGED authorityVars
        /\ UNCHANGED driverVars
        /\ UNCHANGED checkpointVars
        /\ UNCHANGED mempoolVars
        /\ UNCHANGED transactionVars
        /\ UNCHANGED storageVars
        /\ UNCHANGED prunerVars
        /\ UNCHANGED authorityCallVars
        /\ UNCHANGED managerVars

NextObjectStore == ObjectGet \/ ObjectPut \/ ObjectDelete

(***************************************************************************)
(* StorageManager (storage/mod.rs) and its CacheStore (storage/cache.rs)   *)
(***************************************************************************)
\* StorageManager::get_object: the cached value when there is one, else
\* the value of the object store, which is then cached.
GetObject ==
    \E key \in ObjectKeys :
        /\ IF key \in DOMAIN cache
           THEN /\ result' = OkValue("get_object", << key, Some(cache[key]) >>)
                /\ UNCHANGED cache
           ELSE LET value == object_get(objects, object_metadata, key)
                IN  /\ result' = OkValue("get_object", << key, value >>)
                    /\ cache' = IF IsSome(value) THEN (key :> Unwrap(value)) @@ cache
                                ELSE cache
        /\ UNCHANGED objectVars
        /\ UNCHANGED consensusVars
        /\ UNCHANGED authorityVars
        /\ UNCHANGED driverVars
        /\ UNCHANGED checkpointVars
        /\ UNCHANGED mempoolVars
        /\ UNCHANGED transactionVars
        /\ UNCHANGED prunerVars
        /\ UNCHANGED authorityCallVars
        /\ UNCHANGED managerVars

\* StorageManager::put_object: the object store, then the cache.
PutObject ==
    \E key \in ObjectKeys, value \in ObjectValues :
        /\ object_put(key, value)
        /\ cache' = (key :> value) @@ cache
        /\ result' = OkValue("put_object", << key, value >>)
        /\ UNCHANGED consensusVars
        /\ UNCHANGED authorityVars
        /\ UNCHANGED driverVars
        /\ UNCHANGED checkpointVars
        /\ UNCHANGED mempoolVars
        /\ UNCHANGED transactionVars
        /\ UNCHANGED prunerVars
        /\ UNCHANGED authorityCallVars
        /\ UNCHANGED managerVars

\* StorageManager::delete_object: the object store, then the key's entry of
\* the cache.
DeleteObject ==
    \E key \in ObjectKeys :
        /\ object_delete(key)
        /\ cache' = [k \in DOMAIN cache \ {key} |-> cache[k]]
        /\ result' = OkValue("delete_object", << key >>)
        /\ UNCHANGED consensusVars
        /\ UNCHANGED authorityVars
        /\ UNCHANGED driverVars
        /\ UNCHANGED checkpointVars
        /\ UNCHANGED mempoolVars
        /\ UNCHANGED transactionVars
        /\ UNCHANGED prunerVars
        /\ UNCHANGED authorityCallVars
        /\ UNCHANGED managerVars

\* The cache drops an entry: its time to live or to idle is over, or the
\* cache is above its capacity.
CacheEvict ==
    \E key \in DOMAIN cache :
        /\ cache' = [k \in DOMAIN cache \ {key} |-> cache[k]]
        /\ result' = Ok("evict")
        /\ UNCHANGED objectVars
        /\ UNCHANGED consensusVars
        /\ UNCHANGED authorityVars
        /\ UNCHANGED driverVars
        /\ UNCHANGED checkpointVars
        /\ UNCHANGED mempoolVars
        /\ UNCHANGED transactionVars
        /\ UNCHANGED prunerVars
        /\ UNCHANGED authorityCallVars
        /\ UNCHANGED managerVars

\* CacheStore::put, on the cache StorageManager::cache_store hands out:
\* inserts any key with any value.
CachePut ==
    \E key \in ObjectKeys, value \in ObjectValues :
        /\ cache' = (key :> value) @@ cache
        /\ result' = OkValue("cache_put", << key, value >>)
        /\ UNCHANGED objectVars
        /\ UNCHANGED consensusVars
        /\ UNCHANGED authorityVars
        /\ UNCHANGED driverVars
        /\ UNCHANGED checkpointVars
        /\ UNCHANGED mempoolVars
        /\ UNCHANGED transactionVars
        /\ UNCHANGED prunerVars
        /\ UNCHANGED authorityCallVars
        /\ UNCHANGED managerVars

\* The lists of entries handed to put_many: up to MaxPutMany pairs of a key
\* and a value, the same key more than once included.
CacheEntries == SeqsUpTo(ObjectKeys \X ObjectValues, MaxPutMany)

RECURSIVE put_entries(_, _)
\* The loop of put_many: inserts the entries one after the other, each key
\* with its own value, a later entry of a key over an earlier one.
put_entries(c, entries) ==
    IF entries = << >> THEN c
    ELSE put_entries((Head(entries)[1] :> Head(entries)[2]) @@ c, Tail(entries))

\* CacheStore::put_many.
CachePutMany ==
    \E entries \in CacheEntries :
        /\ cache' = put_entries(cache, entries)
        /\ result' = OkValue("cache_put_many", entries)
        /\ UNCHANGED objectVars
        /\ UNCHANGED consensusVars
        /\ UNCHANGED authorityVars
        /\ UNCHANGED driverVars
        /\ UNCHANGED checkpointVars
        /\ UNCHANGED mempoolVars
        /\ UNCHANGED transactionVars
        /\ UNCHANGED prunerVars
        /\ UNCHANGED authorityCallVars
        /\ UNCHANGED managerVars

\* CacheStore::delete: invalidates the entry of the key, if there is one.
CacheDelete ==
    \E key \in ObjectKeys :
        /\ cache' = [k \in DOMAIN cache \ {key} |-> cache[k]]
        /\ result' = OkValue("cache_delete", << key >>)
        /\ UNCHANGED objectVars
        /\ UNCHANGED consensusVars
        /\ UNCHANGED authorityVars
        /\ UNCHANGED driverVars
        /\ UNCHANGED checkpointVars
        /\ UNCHANGED mempoolVars
        /\ UNCHANGED transactionVars
        /\ UNCHANGED prunerVars
        /\ UNCHANGED authorityCallVars
        /\ UNCHANGED managerVars

\* CacheStore::clear.
CacheClear ==
    /\ cache' = << >>
    /\ result' = Ok("cache_clear")
    /\ UNCHANGED objectVars
    /\ UNCHANGED consensusVars
    /\ UNCHANGED authorityVars
    /\ UNCHANGED driverVars
    /\ UNCHANGED checkpointVars
    /\ UNCHANGED mempoolVars
    /\ UNCHANGED transactionVars
    /\ UNCHANGED prunerVars
    /\ UNCHANGED authorityCallVars
    /\ UNCHANGED managerVars

\* The calls of StorageManager: put_object, delete_object and get_object.
NextStorage ==
    \/ GetObject
    \/ PutObject
    \/ DeleteObject

\* The calls of StorageManager together with what else acts on its cache:
\* the evictions, and the calls of CacheStore made on the cache that
\* StorageManager::cache_store hands out.
NextCache ==
    \/ NextStorage
    \/ CacheEvict
    \/ CachePut
    \/ CachePutMany
    \/ CacheDelete
    \/ CacheClear

(***************************************************************************)
(* Mempool (mempool/pool.rs, mempool/prioritizer.rs)                       *)
(***************************************************************************)
Calls == 1 .. MaxCalls

\* The signed transactions submitted, by digest: sender, gas price and
\* encoded size.
MempoolTxs ==
    (1 :> [sender |-> "a", gas_price |-> 1, size |-> 1]) @@
    (2 :> [sender |-> "a", gas_price |-> 2, size |-> 1]) @@
    (3 :> [sender |-> "b", gas_price |-> 1, size |-> 1])

MempoolDigests == DOMAIN MempoolTxs

\* The digest lists handed to remove_transactions.
RemoveLists == { << 1 >>, << 1, 2 >>, << 3, 3 >> }

\* The batch sizes asked of get_batch.
BatchSizes == {1, 2}

\* TransactionPrioritizer::calculate_priority
calculate_priority(tx) == (tx.gas_price * 1000000) \div tx.size

\* A call slot: where the call is, its argument (a digest or a batch size),
\* the time it read and the digests handed to remove_transactions.
IdleCall == [pc |-> "idle", arg |-> 0, time |-> 0, digests |-> << >>]

\* The number of digests in the priority queue.
RECURSIVE QueuedCount(_)
QueuedCount(q) ==
    IF DOMAIN q = {} THEN 0
    ELSE LET pr == CHOOSE x \in DOMAIN q : TRUE
         IN  Len(q[pr]) + QueuedCount([x \in DOMAIN q \ {pr} |-> q[x]])

\* The per-account check of add_transaction with the comparison dropped.
limit_reached_never(count) == FALSE

\* The per-account check of add_transaction.
limit_reached(count) == count >= PerAccountLimit

\* A call returns: its slot is free again.
Return(c, r) ==
    /\ mp_call' = [mp_call EXCEPT ![c] = IdleCall]
    /\ result' = r

mempoolRest ==
    /\ UNCHANGED consensusVars
    /\ UNCHANGED authorityVars
    /\ UNCHANGED driverVars
    /\ UNCHANGED checkpointVars
    /\ UNCHANGED objectVars
    /\ UNCHANGED transactionVars
    /\ UNCHANGED storageVars
    /\ UNCHANGED prunerVars
    /\ UNCHANGED authorityCallVars
    /\ UNCHANGED managerVars

\* A read lock of transactions is granted when no writer holds the lock and
\* no write request is queued (the RwLock is fair: a queued writer goes
\* before the readers that come after it).
can_read == mp_locks.transactions = 0 /\ mp_locks.queued = {}

\* The write lock of transactions is granted to call c when nobody holds
\* the lock and no other request was queued before c asked.
can_write(c) ==
    /\ mp_locks.transactions = 0
    /\ mp_locks.readers = {}
    /\ mp_locks.queued = {} \/ c \in mp_locks.queued

\* The add_transaction calls in progress.
AddsInProgress ==
    { c \in Calls : mp_call[c].pc \in {"add_duplicate", "add_lock_accounts",
                                       "add_insert", "add_push"} }

\* add_transaction is called: the capacity check, under a read lock of
\* its own.
AddCheckCapacity(c) ==
    \E d \in MempoolDigests :
        /\ mp_call[c].pc = "idle"
        /\ QueuedCount(priority_queue) + Cardinality(AddsInProgress) < MaxQueued
        /\ can_read
        /\ IF Cardinality(DOMAIN transactions) >= Capacity
           THEN Return(c, Err("add_transaction", "MempoolFull"))
           ELSE /\ mp_call' = [mp_call EXCEPT ![c] = [IdleCall EXCEPT !.pc = "add_duplicate",
                                                                      !.arg = d]]
                /\ UNCHANGED result
        /\ UNCHANGED << transactions, priority_queue, account_txs, mp_locks, now >>
        /\ mempoolRest

\* add_transaction: the duplicate check, under a read lock of its own.
AddCheckDuplicate(c) ==
    /\ mp_call[c].pc = "add_duplicate"
    /\ can_read
    /\ IF mp_call[c].arg \in DOMAIN transactions
       THEN Return(c, Err("add_transaction", "DuplicateTransaction"))
       ELSE /\ mp_call' = [mp_call EXCEPT ![c].pc = "add_lock_accounts"]
            /\ UNCHANGED result
    /\ UNCHANGED << transactions, priority_queue, account_txs, mp_locks, now >>
    /\ mempoolRest

\* add_transaction: takes the write lock of account_txs, creates the
\* sender's counter, checks it and builds the TransactionInfo.
AddLockAccounts(c) ==
    LET sender == MempoolTxs[mp_call[c].arg].sender
        counts == IF sender \in DOMAIN account_txs THEN account_txs
                  ELSE (sender :> 0) @@ account_txs
    IN  /\ mp_call[c].pc = "add_lock_accounts"
        /\ mp_locks.account_txs = 0
        /\ account_txs' = counts
        /\ IF limit_reached(counts[sender])
           THEN /\ Return(c, Err("add_transaction", "MempoolFull"))
                /\ UNCHANGED mp_locks
           ELSE /\ mp_call' = [mp_call EXCEPT ![c].pc = "add_insert", ![c].time = now]
                /\ mp_locks' = [mp_locks EXCEPT !.account_txs = c]
                /\ UNCHANGED result
        /\ UNCHANGED << transactions, priority_queue, now >>
        /\ mempoolRest

\* A call that asks for the write lock of transactions while it cannot be
\* granted: the request is queued.
QueueWrite(c) ==
    /\ mp_call[c].pc \in {"add_insert", "remove_lock_transactions"}
    /\ c \notin mp_locks.queued
    /\ ~ can_write(c)
    /\ mp_locks' = [mp_locks EXCEPT !.queued = @ \cup {c}]
    /\ UNCHANGED << transactions, priority_queue, account_txs, mp_call, now, result >>
    /\ mempoolRest

\* add_transaction: the insert, under a write lock of its own.
AddInsert(c) ==
    LET d == mp_call[c].arg
    IN  /\ mp_call[c].pc = "add_insert"
        /\ can_write(c)
        /\ mp_locks' = [mp_locks EXCEPT !.queued = @ \ {c}]
        /\ transactions' =
               (d :> [priority |-> calculate_priority(MempoolTxs[d]),
                      insertion_time |-> mp_call[c].time]) @@ transactions
        /\ mp_call' = [mp_call EXCEPT ![c].pc = "add_push"]
        /\ UNCHANGED << priority_queue, account_txs, now, result >>
        /\ mempoolRest

\* add_transaction: the push on the queue of the priority, the increment
\* of the sender's counter and the return.
AddPush(c) ==
    LET d  == mp_call[c].arg
        pr == calculate_priority(MempoolTxs[d])
        q  == IF pr \in DOMAIN priority_queue THEN priority_queue
              ELSE (pr :> << >>) @@ priority_queue
    IN  /\ mp_call[c].pc = "add_push"
        /\ mp_locks.priority_queue = 0
        /\ priority_queue' = [q EXCEPT ![pr] = Append(@, d)]
        /\ account_txs' = [account_txs EXCEPT ![MempoolTxs[d].sender] = @ + 1]
        /\ mp_locks' = [mp_locks EXCEPT !.account_txs = 0]
        /\ Return(c, Ok("add_transaction"))
        /\ UNCHANGED << transactions, now >>
        /\ mempoolRest

\* The digests of the priority queue as get_batch walks them: by
\* descending priority, each vector from its front.
RECURSIVE QueueDescending(_)
QueueDescending(q) ==
    IF DOMAIN q = {} THEN << >>
    ELSE LET top == CHOOSE x \in DOMAIN q : \A y \in DOMAIN q : y <= x
         IN  q[top] \o QueueDescending([x \in DOMAIN q \ {top} |-> q[x]])

\* now.duration_since(info.insertion_time) > transaction_timeout
expired(info, time) == time - info.insertion_time > TransactionTimeout

\* The first n elements of a sequence.
Take(seq, n) == SubSeq(seq, 1, IF Len(seq) < n THEN Len(seq) ELSE n)

\* The batch get_batch builds: the stored, unexpired transactions of the
\* queue, until max_size are taken.
batch_of(q, txs, time, max_size) ==
    LET kept(d) == d \in DOMAIN txs /\ ~ expired(txs[d], time)
    IN  Take(SelectSeq(QueueDescending(q), kept), max_size)

\* get_batch is called: takes the write lock of priority_queue.
BatchLockQueue(c) ==
    \E max_size \in BatchSizes :
        /\ mp_call[c].pc = "idle"
        /\ mp_locks.priority_queue = 0
        /\ mp_locks' = [mp_locks EXCEPT !.priority_queue = c]
        /\ mp_call' = [mp_call EXCEPT ![c] = [IdleCall EXCEPT !.pc = "batch_collect",
                                                                !.arg = max_size]]
        /\ UNCHANGED << transactions, priority_queue, account_txs, now, result >>
        /\ mempoolRest

\* get_batch: takes the read lock of transactions, drains every vector of
\* the queue into the batch and returns it.
BatchCollect(c) ==
    /\ mp_call[c].pc = "batch_collect"
    /\ can_read
    /\ priority_queue' = [pr \in DOMAIN priority_queue |-> << >>]
    /\ mp_locks' = [mp_locks EXCEPT !.priority_queue = 0]
    /\ Return(c, OkValue("get_batch",
                         batch_of(priority_queue, transactions, now, mp_call[c].arg)))
    /\ UNCHANGED << transactions, account_txs, now >>
    /\ mempoolRest

\* remove_transactions for one digest, decrementing whether or not the
\* digest was stored.
remove_one_unchecked(st, d) ==
    LET sender == MempoolTxs[d].sender
    IN  [transactions |-> [x \in DOMAIN st.transactions \ {d} |-> st.transactions[x]],
         account_txs |->
             IF sender \in DOMAIN st.account_txs
             THEN [st.account_txs EXCEPT ![sender] = Max(@ - 1, 0)]
             ELSE st.account_txs]

\* remove_transactions for one digest: a stored transaction is removed and
\* the counter of its sender, when there is one, decremented.
remove_one(st, d) ==
    IF d \notin DOMAIN st.transactions THEN st
    ELSE LET sender == MempoolTxs[d].sender
         IN  [transactions |-> [x \in DOMAIN st.transactions \ {d} |-> st.transactions[x]],
              account_txs |->
                  IF sender \in DOMAIN st.account_txs
                  THEN [st.account_txs EXCEPT ![sender] = Max(@ - 1, 0)]
                  ELSE st.account_txs]

\* The loop of remove_transactions.
RECURSIVE remove_all(_, _)
remove_all(st, digests) ==
    IF digests = << >> THEN st
    ELSE remove_all(remove_one(st, Head(digests)), Tail(digests))

\* The transactions garbage_collect finds expired at the time it read.
to_remove(txs, time) == { d \in DOMAIN txs : expired(txs[d], time) }

\* garbage_collect is called: reads the clock.
GarbageCollect(c) ==
    /\ mp_call[c].pc = "idle"
    /\ mp_call' = [mp_call EXCEPT ![c] = [IdleCall EXCEPT !.pc = "gc_lock", !.time = now]]
    /\ UNCHANGED << transactions, priority_queue, account_txs, mp_locks, now, result >>
    /\ mempoolRest

\* garbage_collect: takes the read lock of transactions, which it holds
\* until it returns, collects the expired transactions in the order of the
\* iteration over the map (any order) and calls remove_transactions.
GcCollect(c) ==
    \E digests \in Orderings(to_remove(transactions, mp_call[c].time)) :
        /\ mp_call[c].pc = "gc_lock"
        /\ can_read
        /\ mp_locks' = [mp_locks EXCEPT !.readers = @ \cup {c}]
        /\ mp_call' = [mp_call EXCEPT ![c].pc = "remove_lock_transactions",
                                      ![c].digests = digests]
        /\ UNCHANGED << transactions, priority_queue, account_txs, now, result >>
        /\ mempoolRest

\* remove_transactions is called by a caller of the mempool.
RemoveCall(c) ==
    \E digests \in RemoveLists :
        /\ mp_call[c].pc = "idle"
        /\ mp_call' = [mp_call EXCEPT ![c] = [IdleCall EXCEPT !.pc = "remove_lock_transactions",
                                                              !.digests = digests]]
        /\ UNCHANGED << transactions, priority_queue, account_txs, mp_locks, now, result >>
        /\ mempoolRest

\* remove_transactions: takes the write lock of transactions.
RemoveLockTransactions(c) ==
    /\ mp_call[c].pc = "remove_lock_transactions"
    /\ can_write(c)
    /\ mp_locks' = [mp_locks EXCEPT !.transactions = c, !.queued = @ \ {c}]
    /\ mp_call' = [mp_call EXCEPT ![c].pc = "remove_lock_accounts"]
    /\ UNCHANGED << transactions, priority_queue, account_txs, now, result >>
    /\ mempoolRest

\* remove_transactions: takes the write lock of account_txs, removes the
\* digests and returns.
RemoveTransactions(c) ==
    LET st == remove_all([transactions |-> transactions, account_txs |-> account_txs],
                         mp_call[c].digests)
    IN  /\ mp_call[c].pc = "remove_lock_accounts"
        /\ mp_locks.account_txs = 0
        /\ transactions' = st.transactions
        /\ account_txs' = st.account_txs
        /\ mp_locks' = [mp_locks EXCEPT !.transactions = 0, !.readers = @ \ {c}]
        /\ Return(c, Ok(IF c \in mp_locks.readers THEN "garbage_collect"
                        ELSE "remove_transactions"))
        /\ UNCHANGED << priority_queue, now >>
        /\ mempoolRest

\* Time passes.
Tick ==
    /\ now < MaxTime
    /\ now' = now + 1
    /\ UNCHANGED << transactions, priority_queue, account_txs, mp_locks, mp_call, result >>
    /\ mempoolRest

NextMempool ==
    \/ \E c \in Calls : AddCheckCapacity(c)
    \/ \E c \in Calls : AddCheckDuplicate(c)
    \/ \E c \in Calls : AddLockAccounts(c)
    \/ \E c \in Calls : QueueWrite(c)
    \/ \E c \in Calls : AddInsert(c)
    \/ \E c \in Calls : AddPush(c)
    \/ \E c \in Calls : BatchLockQueue(c)
    \/ \E c \in Calls : BatchCollect(c)
    \/ \E c \in Calls : RemoveCall(c)
    \/ \E c \in Calls : RemoveLockTransactions(c)
    \/ \E c \in Calls : RemoveTransactions(c)
    \/ Tick

(***************************************************************************)
(* Executor (execution/executor.rs)                                        *)
(***************************************************************************)
\* The ids of the objects a transaction can touch.
ContextObjects == {1, 2}

\* ExecutionContext as the runtime leaves it when it returns: the objects
\* it recorded with add_modified_object, add_created_object and
\* add_deleted_object, each call pushing on its list.
Contexts ==
    [modified_objects : SUBSET ContextObjects,
     created_objects : SUBSET ContextObjects,
     deleted_objects : SUBSET ContextObjects]

\* The effects Executor::execute_transaction builds from the status of
\* execute_transaction_impl and from the context.
executor_effects(runs, context) ==
    [status |-> IF runs THEN "Success" ELSE "Failure",
     modified_objects |-> context.modified_objects,
     created_objects |-> context.created_objects,
     deleted_objects |-> context.deleted_objects]

\* Executor::execute_transaction: valid is the outcome of
\* validate_transaction, runs that of execute_transaction_impl, context the
\* context the runtime leaves.
ExecutorExecuteTransaction ==
    \E valid \in BOOLEAN, runs \in BOOLEAN, context \in Contexts :
        /\ IF ~ valid
           THEN result' = Err("Executor.execute_transaction", "ValidationError")
           ELSE result' = OkValue("Executor.execute_transaction",
                                  executor_effects(runs, context))
        /\ UNCHANGED consensusVars
        /\ UNCHANGED authorityVars
        /\ UNCHANGED driverVars
        /\ UNCHANGED checkpointVars
        /\ UNCHANGED objectVars
        /\ UNCHANGED mempoolVars
        /\ UNCHANGED transactionVars
        /\ UNCHANGED storageVars
        /\ UNCHANGED prunerVars
        /\ UNCHANGED authorityCallVars
        /\ UNCHANGED managerVars

NextExecutor == ExecutorExecuteTransaction

(***************************************************************************)
(* Transaction (transaction/mod.rs) and its keys (crypto/keypair.rs)       *)
(***************************************************************************)
\* The most signatures a transaction receives one after the other.
MaxSigns == 2

\* The most transactions handed to the TransactionManager.
MaxManagerDigests == 2

\* The most execute_transaction calls in progress together.
MaxManagerCalls == 2

\* The key pairs; a key pair is named by its public key.
KeyPairs == {1, 2}

\* The fields of a transaction that Transaction::new receives; data, gas
\* price, dependencies and expiration are the same for all.
TransactionBodies == [sender : {1, 2}, gas_budget : {1, 2}, epoch : 0 .. 1]

\* Transaction::new: neither signature nor public key.
TransactionNew(body) == [body |-> body, signature |-> None, public_key |-> None]

\* Transaction::digest: the hash of the serialization of the whole struct,
\* the signature and the public key included.  The hash is collision-free:
\* the digest is the tuple of what is hashed.
transaction_digest(t) == << t.body, t.signature, t.public_key >>

\* KeyPair::sign: a signature is the key that made it and the message.
keypair_sign(keypair, message) == [signer |-> keypair, message |-> message]

\* PublicKey::verify
public_key_verify(public_key, message, signature) ==
    signature.signer = public_key /\ signature.message = message

\* Transaction::sign
transaction_sign(t, keypair) ==
    [t EXCEPT !.signature = Some(keypair_sign(keypair, transaction_digest(t))),
              !.public_key = Some(keypair)]

\* Transaction::verify_signature
verify_signature(t) ==
    IF IsSome(t.signature) /\ IsSome(t.public_key)
    THEN public_key_verify(Unwrap(t.public_key), transaction_digest(t), Unwrap(t.signature))
    ELSE FALSE

RECURSIVE Signs(_)
\* How many times a transaction was signed.
Signs(t) == IF IsSome(t.signature)
            THEN 1 + Signs([body |-> Unwrap(t.signature).message[1],
                            signature |-> Unwrap(t.signature).message[2],
                            public_key |-> Unwrap(t.signature).message[3]])
            ELSE 0

TransactionCreate ==
    \E body \in TransactionBodies :
        /\ the_transaction' = Some(TransactionNew(body))
        /\ result' = Ok("Transaction.new")
        /\ UNCHANGED consensusVars
        /\ UNCHANGED authorityVars
        /\ UNCHANGED driverVars
        /\ UNCHANGED checkpointVars
        /\ UNCHANGED objectVars
        /\ UNCHANGED mempoolVars
        /\ UNCHANGED storageVars
        /\ UNCHANGED prunerVars
        /\ UNCHANGED authorityCallVars
        /\ UNCHANGED managerVars

TransactionSign ==
    \E keypair \in KeyPairs :
        /\ IsSome(the_transaction)
        /\ Signs(Unwrap(the_transaction)) < MaxSigns
        /\ the_transaction' = Some(transaction_sign(Unwrap(the_transaction), keypair))
        /\ result' = OkArg("Transaction.sign", keypair)
        /\ UNCHANGED consensusVars
        /\ UNCHANGED authorityVars
        /\ UNCHANGED driverVars
        /\ UNCHANGED checkpointVars
        /\ UNCHANGED objectVars
        /\ UNCHANGED mempoolVars
        /\ UNCHANGED storageVars
        /\ UNCHANGED prunerVars
        /\ UNCHANGED authorityCallVars
        /\ UNCHANGED managerVars

TransactionVerifySignature ==
    /\ IsSome(the_transaction)
    /\ result' = [Ok("Transaction.verify_signature")
                    EXCEPT !.ok = verify_signature(Unwrap(the_transaction))]
    /\ UNCHANGED the_transaction
    /\ UNCHANGED consensusVars
    /\ UNCHANGED authorityVars
    /\ UNCHANGED driverVars
    /\ UNCHANGED checkpointVars
    /\ UNCHANGED objectVars
    /\ UNCHANGED mempoolVars
    /\ UNCHANGED storageVars
    /\ UNCHANGED prunerVars
    /\ UNCHANGED authorityCallVars
    /\ UNCHANGED managerVars

NextTransaction == TransactionCreate \/ TransactionSign \/ TransactionVerifySignature

NextMempoolGc ==
    \/ \E c \in Calls : AddCheckCapacity(c)
    \/ \E c \in Calls : AddCheckDuplicate(c)
    \/ \E c \in Calls : AddLockAccounts(c)
    \/ \E c \in Calls : QueueWrite(c)
    \/ \E c \in Calls : AddInsert(c)
    \/ \E c \in Calls : AddPush(c)
    \/ \E c \in Calls : GarbageCollect(c)
    \/ \E c \in Calls : GcCollect(c)
    \/ \E c \in Calls : RemoveCall(c)
    \/ \E c \in Calls : RemoveLockTransactions(c)
    \/ \E c \in Calls : RemoveTransactions(c)
    \/ Tick

(***************************************************************************)
(* TransactionManager (transaction/manager.rs)                             *)
(***************************************************************************)
\* The digests of the transactions handed to the manager.
ManagerDigests == 1 .. MaxManagerDigests

\* The calls of the manager that may be in progress together.
ManagerCalls == 1 .. MaxManagerCalls

\* The TransactionInfo submit_transaction creates.
PendingInfo == [status |-> "Pending", effects |-> None]

\* A call slot with no call in progress.
IdleManagerCall == [pc |-> "idle", digest |-> 0, info |-> PendingInfo]

managerRest ==
    /\ UNCHANGED consensusVars
    /\ UNCHANGED authorityVars
    /\ UNCHANGED driverVars
    /\ UNCHANGED checkpointVars
    /\ UNCHANGED objectVars
    /\ UNCHANGED mempoolVars
    /\ UNCHANGED transactionVars
    /\ UNCHANGED storageVars
    /\ UNCHANGED prunerVars
    /\ UNCHANGED authorityCallVars

\* A call of the manager returns.
ManagerReturn(c, r) ==
    /\ tm_call' = [tm_call EXCEPT ![c] = IdleManagerCall]
    /\ result' = r

\* submit_transaction is called: validates the transaction and looks for
\* its digest in the storage.
ManagerSubmitTransaction(c) ==
    \E d \in ManagerDigests, valid \in BOOLEAN :
        /\ tm_call[c].pc = "idle"
        /\ IF ~ valid
           THEN ManagerReturn(c, ErrArg("submit_transaction", "InvalidTransaction", d))
           ELSE IF d \in DOMAIN tm_storage
           THEN ManagerReturn(c, ErrArg("submit_transaction", "TransactionExists", d))
           ELSE /\ tm_call' = [tm_call EXCEPT ![c] =
                                  [pc |-> "submit_store", digest |-> d, info |-> PendingInfo]]
                /\ UNCHANGED result
        /\ UNCHANGED << tm_storage, processing, executions >>
        /\ managerRest

\* submit_transaction: stores the transaction info.
ManagerSubmitStore(c) ==
    /\ tm_call[c].pc = "submit_store"
    /\ tm_storage' = (tm_call[c].digest :> tm_call[c].info) @@ tm_storage
    /\ tm_call' = [tm_call EXCEPT ![c].pc = "submit_insert"]
    /\ UNCHANGED << processing, executions, result >>
    /\ managerRest

\* submit_transaction: takes the write lock of the processing table,
\* inserts the info and returns the digest.
ManagerSubmitInsert(c) ==
    /\ tm_call[c].pc = "submit_insert"
    /\ processing' = (tm_call[c].digest :> tm_call[c].info) @@ processing
    /\ ManagerReturn(c, OkArg("submit_transaction", tm_call[c].digest))
    /\ UNCHANGED << tm_storage, executions >>
    /\ managerRest

\* execute_transaction with the info get_transaction_info found: checks the
\* status and sets Processing in its copy.
check_status(c, d, info) ==
    IF info.status # "Pending"
    THEN ManagerReturn(c, ErrArg("execute_transaction", "InvalidTransactionStatus", d))
    ELSE /\ tm_call' = [tm_call EXCEPT ![c] =
                           [pc |-> "mark_processing", digest |-> d,
                            info |-> [info EXCEPT !.status = "Processing"]]]
         /\ UNCHANGED result

\* execute_transaction is called: get_transaction_info looks into the
\* processing table first.
ExecuteGetInfo(c) ==
    \E d \in ManagerDigests :
        /\ tm_call[c].pc = "idle"
        /\ IF d \in DOMAIN processing
           THEN check_status(c, d, processing[d])
           ELSE /\ tm_call' = [tm_call EXCEPT ![c] =
                                  [pc |-> "get_storage", digest |-> d, info |-> PendingInfo]]
                /\ UNCHANGED result
        /\ UNCHANGED << tm_storage, processing, executions >>
        /\ managerRest

\* execute_transaction: get_transaction_info reads the storage.
ExecuteGetStorage(c) ==
    LET d == tm_call[c].digest
    IN  /\ tm_call[c].pc = "get_storage"
        /\ IF d \in DOMAIN tm_storage
           THEN check_status(c, d, tm_storage[d])
           ELSE ManagerReturn(c, ErrArg("execute_transaction", "TransactionNotFound", d))
        /\ UNCHANGED << tm_storage, processing, executions >>
        /\ managerRest

\* execute_transaction, update_transaction_info: stores the info with the
\* status Processing.
ExecuteMarkProcessing(c) ==
    /\ tm_call[c].pc = "mark_processing"
    /\ tm_storage' = (tm_call[c].digest :> tm_call[c].info) @@ tm_storage
    /\ tm_call' = [tm_call EXCEPT ![c].pc = "table_processing"]
    /\ UNCHANGED << processing, executions, result >>
    /\ managerRest

\* update_transaction_info: takes the write lock of the processing table
\* and replaces the entry of the digest, if the table has one.
UpdateProcessingTable(c) ==
    LET d == tm_call[c].digest
    IN  /\ tm_call[c].pc \in {"table_processing", "table_executed"}
        /\ processing' = IF d \in DOMAIN processing
                         THEN [processing EXCEPT ![d] = tm_call[c].info]
                         ELSE processing
        /\ tm_call' = [tm_call EXCEPT ![c].pc =
                          IF tm_call[c].pc = "table_processing" THEN "execute" ELSE "remove"]
        /\ UNCHANGED << tm_storage, executions, result >>
        /\ managerRest

\* execute_transaction: the executor runs the transaction; on an error
\* the call returns it.
ExecuteRun(c) ==
    \E ok \in BOOLEAN :
        LET d == tm_call[c].digest
        IN  /\ tm_call[c].pc = "execute"
            /\ executions' = [executions EXCEPT ![d] = @ + 1]
            /\ IF ok
               THEN /\ tm_call' = [tm_call EXCEPT ![c].pc = "mark_executed",
                                                  ![c].info = [status |-> "Executed",
                                                               effects |-> Some(d)]]
                    /\ UNCHANGED result
               ELSE ManagerReturn(c, ErrArg("execute_transaction", "ExecutionError", d))
            /\ UNCHANGED << tm_storage, processing >>
            /\ managerRest

\* execute_transaction, update_transaction_info: stores the info with the
\* status Executed and the effects.
ExecuteMarkExecuted(c) ==
    /\ tm_call[c].pc = "mark_executed"
    /\ tm_storage' = (tm_call[c].digest :> tm_call[c].info) @@ tm_storage
    /\ tm_call' = [tm_call EXCEPT ![c].pc = "table_executed"]
    /\ UNCHANGED << processing, executions, result >>
    /\ managerRest

\* execute_transaction: takes the digest out of the processing table and
\* returns the effects.
ExecuteRemove(c) ==
    LET d == tm_call[c].digest
    IN  /\ tm_call[c].pc = "remove"
        /\ processing' = [x \in DOMAIN processing \ {d} |-> processing[x]]
        /\ ManagerReturn(c, OkArg("execute_transaction", d))
        /\ UNCHANGED << tm_storage, executions >>
        /\ managerRest

NextManager ==
    \/ \E c \in ManagerCalls : ManagerSubmitTransaction(c)
    \/ \E c \in ManagerCalls : ManagerSubmitStore(c)
    \/ \E c \in ManagerCalls : ManagerSubmitInsert(c)
    \/ \E c \in ManagerCalls : ExecuteGetInfo(c)
    \/ \E c \in ManagerCalls : ExecuteGetStorage(c)
    \/ \E c \in ManagerCalls : ExecuteMarkProcessing(c)
    \/ \E c \in ManagerCalls : UpdateProcessingTable(c)
    \/ \E c \in ManagerCalls : ExecuteRun(c)
    \/ \E c \in ManagerCalls : ExecuteMarkExecuted(c)
    \/ \E c \in ManagerCalls : ExecuteRemove(c)

Init ==
    /\ highest_voted_round = 0
    /\ highest_certified_round = 0
    /\ locked_round = None
    /\ signed = {}
    /\ sign_call = IdleSignCall
    /\ pp_call = IdleProposalCall
    /\ nodes = << >>
    /\ rounds = << >>
    /\ state = [round |-> 0, last_committed_round |-> 0,
                pending_proposals |-> {}, committed_certificates |-> << >>]
    /\ auth_epoch = 0
    /\ current_epoch = GenesisEpoch
    /\ next_committee = None
    /\ store_committee = None
    /\ last_sequence = 0
    /\ status = "Active"
    /\ tx_channel = << >>
    /\ pending_transactions = << >>
    /\ proc = [t \in Tasks |-> IdleProc]
    /\ caller = [t \in Tasks |-> [st |-> "idle", res |-> ""]]
    /\ exec_calls = [d \in TxDigests |-> 0]
    /\ checkpoints = << >>
    /\ state_checkpoints = << >>
    /\ objects = << >>
    /\ object_metadata = << >>
    /\ transactions = << >>
    /\ priority_queue = << >>
    /\ account_txs = << >>
    /\ mp_locks = [transactions |-> 0, priority_queue |-> 0, account_txs |-> 0,
                   readers |-> {}, queued |-> {}]
    /\ mp_call = [c \in Calls |-> IdleCall]
    /\ now = 0
    /\ cache = << >>
    /\ the_transaction = None
    /\ tm_storage = << >>
    /\ processing = << >>
    /\ tm_call = [c \in ManagerCalls |-> IdleManagerCall]
    /\ executions = [d \in ManagerDigests |-> 0]
    /\ prepare_call = [c \in EpochCalls |-> IdlePrepareCall]
    /\ hc_call = IdleCertificateCall
    /\ ht_call = IdleTransactionCall
    /\ prune_call = IdlePruneCall
    /\ result = Ok("new")

NextSafety ==
    \/ SignProposal
    \/ SignCheckLocked
    \/ ProcessVote
    \/ UpdateHighestCertifiedRound

SpecSafety == Init /\ [][NextSafety]_vars

NextDag == AddProposal \/ FindCommitCandidates

SpecDag == Init /\ [][NextDag]_vars

NextNarwhal ==
    \/ ProcessProposal
    \/ ProposalVerifyLocked
    \/ ProposalAdd
    \/ ProposalSignRounds
    \/ ProposalSignLocked
    \/ ProposalCommit
    \/ ProcessVote

SpecNarwhal == Init /\ [][NextNarwhal]_vars

\* The authority as it stands, its certificates and committees; the
\* handle_transaction calls are followed in NextAuthorityEpoch.
NextAuthority ==
    \/ HandleCertificate
    \/ AuthorityVerifySignatures
    \/ ValidatorVerifyCertificate
    \/ ValidatorExecuteCertificate
    \/ PrepareBuild(1)
    \/ PrepareStore(1)
    \/ StartNewEpoch
    \/ PutCommittee

SpecAuthority == Init /\ [][NextAuthority]_vars

\* The authority with effects that carry an epoch change.
NextAuthorityEpoch ==
    \/ HandleCertificate
    \/ AuthorityVerifySignatures
    \/ ValidatorVerifyCertificate
    \/ ValidatorExecuteCertificate
    \/ HandleTransaction
    \/ ExecuteTransaction
    \/ UpdateEpoch
    \/ PutCommittee

SpecAuthorityEpoch == Init /\ [][NextAuthorityEpoch]_vars

NextEpochs ==
    \/ \E c \in EpochCalls : PrepareBuild(c)
    \/ \E c \in EpochCalls : PrepareStore(c)
    \/ StartNewEpoch

SpecEpochs == Init /\ [][NextEpochs]_vars

SpecDriver == Init /\ [][NextDriver]_vars

SpecCheckpoint == Init /\ [][NextCheckpoint]_vars

SpecCheckpoints == Init /\ [][NextCheckpoints]_vars

SpecObjectStore == Init /\ [][NextObjectStore]_vars

SpecMempool == Init /\ [][NextMempool]_vars

SpecExecutor == Init /\ [][NextExecutor]_vars

SpecManager == Init /\ [][NextManager]_vars

\* The mempool with garbage_collect, under fair scheduling: every call in
\* progress is polled, so it queues the request it cannot be granted and
\* takes its next step when the lock it asks for is granted.
MempoolFairness ==
    \A c \in Calls :
        /\ WF_vars(AddCheckDuplicate(c))
        /\ WF_vars(AddLockAccounts(c))
        /\ WF_vars(QueueWrite(c))
        /\ WF_vars(AddInsert(c))
        /\ WF_vars(AddPush(c))
        /\ WF_vars(GcCollect(c))
        /\ WF_vars(RemoveLockTransactions(c))
        /\ WF_vars(RemoveTransactions(c))

SpecMempoolGc == Init /\ [][NextMempoolGc]_vars /\ MempoolFairness

\* The quorum driver under fair scheduling: the processor and every
\* spawned task keep running, the timer of a waiting task fires, and a
\* receiver whose senders are all dropped is woken.
DriverFairness ==
    /\ WF_vars(ProcessorRecv)
    /\ \A t \in Tasks :
          /\ WF_vars(ProcessStart(t))
          /\ WF_vars(ProcessInsert(t))
          /\ WF_vars(ProcessBroadcast(t))
          /\ WF_vars(WaitForQuorum(t))
          /\ WF_vars(ExecuteCertificate(t))
          /\ WF_vars(SendResponse(t))
          /\ WF_vars(RemovePending(t))
          /\ WF_vars(QuorumTimeout(t))
          /\ WF_vars(SendTimeout(t))
          /\ WF_vars(ResponseChannelClosed(t))

SpecDriverFair == Init /\ [][NextDriver]_vars /\ DriverFairness

SpecStorage == Init /\ [][NextStorage]_vars

SpecCache == Init /\ [][NextCache]_vars

SpecTransaction == Init /\ [][NextTransaction]_vars

SpecCheckpointReads == Init /\ [][NextCheckpointReads]_vars

(***************************************************************************)
(* Properties of SafetyRules.                                              *)
(***************************************************************************)
\* C1: no equivocation: sign_proposal never succeeds for two different
\* proposals of the same round on one SafetyRules instance.
C1_NoEquivocation ==
    \A s1 \in signed : \A s2 \in signed :
        s1.round = s2.round => s1.digest = s2.digest

(***************************************************************************)
(* Properties of the Dag.                                                  *)
(***************************************************************************)
\* C5: commit is monotone: a stored node stays stored and a committed flag
\* that is true stays true in every step.
C5_CommitMonotone ==
    [][\A d \in DOMAIN nodes :
          /\ d \in DOMAIN nodes'
          /\ nodes[d].committed => nodes'[d].committed]_vars

\* The stake of an author (the Dag keeps no stake table: one unit each).
Stake(a) == 1

TotalStake == Cardinality(Authors)

\* The number of faults f tolerated: total stake = 3f + 1 (rounded down).
FaultStake == (TotalStake - 1) \div 3

\* The authors of the stored proposals of the next round that name d as a parent.
Supporters(ns, d) ==
    { ns[c].proposal.author :
        c \in { x \in DOMAIN ns : /\ ns[x].proposal.round = ns[d].proposal.round + 1
                                  /\ d \in ns[x].proposal.parents } }

\* C7: commit rule: every proposal find_commit_candidates reports has the
\* support of at least f+1 of the stake among the proposals of the next round.
C7_CommitRule ==
    result.op = "find_commit_candidates" =>
        \A i \in DOMAIN result.value :
            Cardinality(Supporters(nodes, ProposalDigest(result.value[i]))) >= FaultStake + 1

\* p comes before q, or is q, in the order (round, author, digest).
CommitOrderLeq(p, q) ==
    \/ p.round < q.round
    \/ p.round = q.round /\ p.author < q.author
    \/ p.round = q.round /\ p.author = q.author /\ ProposalDigest(p) <= ProposalDigest(q)

\* C8: the list find_commit_candidates returns is sorted by round, then
\* author, then digest.
C8_CommitOrder ==
    result.op = "find_commit_candidates" =>
        \A i \in DOMAIN result.value : \A j \in DOMAIN result.value :
            i < j => CommitOrderLeq(result.value[i], result.value[j])

\* C9: every stored proposal of a round above 0 has all its parents stored,
\* each of the round before.
C9_ParentsStored ==
    \A d \in DOMAIN nodes :
        nodes[d].proposal.round > 0 =>
            \A parent \in nodes[d].proposal.parents :
                /\ parent \in DOMAIN nodes
                /\ nodes[parent].proposal.round = nodes[d].proposal.round - 1

\* C10: add_proposal of a proposal whose digest is stored returns the
\* duplicate error and leaves nodes (children sets included) and the
\* per-round index as they were.
C10_AddIdempotent ==
    [][(result'.op = "add_proposal" /\ result'.arg \in DOMAIN nodes) =>
          /\ ~ result'.ok
          /\ result'.err = "Duplicate proposal"
          /\ nodes' = nodes
          /\ rounds' = rounds]_vars

\* A duplicate add_proposal has just been refused for a node that has children.
C10_Witness ==
    /\ result.op = "add_proposal"
    /\ ~ result.ok
    /\ result.arg \in DOMAIN nodes
    /\ nodes[result.arg].children # {}

\* C6: the engine never commits a proposal twice: committed_certificates
\* holds at most one certificate for each proposal.
C6_CommittedOnce ==
    LET cc == state.committed_certificates
    IN  \A i \in DOMAIN cc : \A j \in DOMAIN cc :
            i # j => ProposalDigest(cc[i].proposal) # ProposalDigest(cc[j].proposal)

(***************************************************************************)
(* Properties of the Authority.                                            *)
(***************************************************************************)
\* The keys that signed, each once.
DistinctSigners(sigs) == { sigs[i].key : i \in DOMAIN sigs }

\* The stake of the distinct signers that are validators of the committee.
DistinctStake(sigs, committee) ==
    SumStake([k \in DistinctSigners(sigs) \cap DOMAIN committee.validators |->
                committee.validators[k]])

\* C2: a certificate handle_certificate has executed carries, from distinct
\* signers of the current committee, at least floor(2 * total_stake / 3) + 1.
C2_ExecutedHasQuorum ==
    (result.op = "handle_certificate" /\ result.ok) =>
        DistinctStake(result.value, current_epoch.committee)
            >= (2 * current_epoch.committee.total_stake) \div 3 + 1


\* The committee validators with a verifying signature in a signature list.
ValidSigners(sigs) ==
    { sigs[i].key : i \in { j \in DOMAIN sigs :
                              sigs[j].valid /\ sigs[j].key \in DriverCommittee } }

\* C3: the quorum driver forms a certificate, and hands it to
\* execute_certificate, only when the signatures collected for the digest
\* come from at least quorum_size distinct committee validators and verify:
\* duplicate, non-member and non-verifying signatures do not count.
C3_CertificateHasQuorum ==
    \A t \in Tasks :
        proc[t].pc = "execute" =>
            Cardinality(ValidSigners(proc[t].cert.signatures)) >= DriverQuorumSize

\* C4: execute_certificate is invoked at most once for a transaction digest,
\* whatever the interleaving of submissions, signatures and timeouts.
C4_ExecutedOnce ==
    \A d \in TxDigests : exec_calls[d] <= 1


\* C11: sign_proposal accepts a proposal of round r if and only if
\* r > highest_voted_round, r <= highest_voted_round + max_round_gap and,
\* when a round L is locked, r > L; a proposal at highest_voted_round or at
\* highest_voted_round + max_round_gap + 1 is rejected.
\* The call reads highest_voted_round and locked_round one after the other:
\* a call that passes the first read meets the whole condition at that
\* moment, and a call that is rejected fails it at the moment of the
\* rejecting read.
Accepts(r) ==
    /\ r > highest_voted_round
    /\ r <= highest_voted_round + MaxRoundGap
    /\ (IsSome(locked_round) => r > Unwrap(locked_round))

C11_SignIff ==
    [][/\ (sign_call.pc = "idle" /\ sign_call'.pc = "locked")
            => Accepts(sign_call'.p.round)
       /\ (sign_call.pc = "idle" /\ sign_call'.pc = "idle"
                /\ result'.op = "sign_proposal")
            => ~ result'.ok /\ ~ Accepts(result'.arg)
       /\ (sign_call.pc = "locked" /\ sign_call'.pc = "idle")
            => /\ result'.op = "sign_proposal"
               /\ result'.ok \/ ~ Accepts(result'.arg)]_vars

\* A proposal one round beyond the gap has been rejected.
C11_Witness ==
    /\ result.op = "sign_proposal"
    /\ ~ result.ok
    /\ result.arg = highest_voted_round + MaxRoundGap + 1
    /\ result.err = "Round gap too large"


\* C12: the lock only advances: once a round L is locked, no step leaves
\* locked_round unset or at a round lower than L.
C12_LockAdvances ==
    [][IsSome(locked_round) =>
          IsSome(locked_round') /\ Unwrap(locked_round') >= Unwrap(locked_round)]_vars


\* A checkpoint store is hash-chained: every stored checkpoint n > 0 has the
\* checkpoint n - 1 stored before it and names its digest.
HashChained(store) ==
    \A n \in DOMAIN store :
        n > 0 => /\ n - 1 \in DOMAIN store
                 /\ store[n].previous_digest = Some(store[n - 1].digest)

\* C13: checkpoints are hash-chained in every reachable state of the
\* checkpoint stores: put_checkpoint stores nothing whose previous_digest
\* does not match the previous record.
C13_HashChained ==
    HashChained(checkpoints) /\ HashChained(state_checkpoints)

\* C14: put_checkpoint of a checkpoint whose digest field differs from the
\* recomputed digest fails with the invalid-digest error and leaves the
\* store unchanged, and every stored checkpoint has digest = recompute.
C14_DigestChecked ==
    /\ [](\A n \in DOMAIN checkpoints :
             checkpoints[n].digest = compute_digest(checkpoints[n]))
    /\ [][(result'.op = "put_checkpoint"
              /\ result'.value[1].digest # compute_digest(result'.value[1]))
            => /\ ~ result'.ok
               /\ result'.err = "Invalid checkpoint digest"
               /\ checkpoints' = checkpoints]_vars

\* A checkpoint with a wrong digest was refused by a store that holds one.
C14_Witness ==
    /\ result.op = "put_checkpoint"
    /\ ~ result.ok
    /\ result.value[1].digest # compute_digest(result.value[1])
    /\ checkpoints # << >>


\* C15: no object id has two distinct values at the same version: a put on
\* a key that holds a value never replaces it by a different value.
C15_NoOverwrite ==
    [][\A k \in DOMAIN objects \cap DOMAIN objects' : objects'[k] = objects[k]]_vars

\* C16: after an object is deleted its historical versions remain
\* accessible: when delete is called for (id, v2), get(id, v1) for every
\* stored lower version v1 still returns the value stored at v1.
C16_HistoryKept ==
    [][result'.op = "object_delete" =>
          \A k \in DOMAIN objects :
              (k.id = result'.value[1].id /\ k.version < result'.value[1].version)
                  => object_get(objects', object_metadata', k) = Some(objects[k])]_vars


\* C17: the mempool never holds more than capacity transactions, under any
\* interleaving of add_transaction, remove_transactions and get_batch.
C17_CapacityBound ==
    Cardinality(DOMAIN transactions) <= Capacity

\* C18: the counter of every sender is at most per_account_limit in every
\* reachable state, and an add_transaction that finds the counter of its
\* sender at the limit is rejected and stores nothing.
C18_PerSenderBound ==
    /\ [](\A sender \in DOMAIN account_txs : account_txs[sender] <= PerAccountLimit)
    /\ [][\A c \in Calls :
            LET sender == MempoolTxs[mp_call[c].arg].sender
            IN  (/\ mp_call[c].pc = "add_lock_accounts"
                 /\ mp_call'[c] # mp_call[c]
                 /\ sender \in DOMAIN account_txs
                 /\ account_txs[sender] >= PerAccountLimit)
                => /\ result' = Err("add_transaction", "MempoolFull")
                   /\ mp_call'[c] = IdleCall
                   /\ transactions' = transactions
                   /\ priority_queue' = priority_queue
                   /\ account_txs' = account_txs]_vars

\* An add was refused for a sender at the limit while the pool had room.
C18_Witness ==
    /\ result = Err("add_transaction", "MempoolFull")
    /\ Cardinality(DOMAIN transactions) < Capacity
    /\ \E sender \in DOMAIN account_txs : account_txs[sender] = PerAccountLimit

\* C19: a digest is admitted at most once: add_transaction never inserts a
\* digest that is stored already, the later or concurrent add failing with
\* the duplicate error instead.
C19_AdmittedOnce ==
    [][\A c \in Calls :
          (mp_call[c].pc = "add_insert" /\ mp_call'[c].pc = "add_push")
              => mp_call[c].arg \notin DOMAIN transactions]_vars

\* The stored transactions of a sender.
StoredOf(txs, sender) == { d \in DOMAIN txs : MempoolTxs[d].sender = sender }

\* C20: remove_transactions is idempotent: after a call has returned, the
\* same call again leaves the stored transactions and the counters as they
\* are, and the call decrements a counter once per transaction it removed.
C20_RemoveIdempotent ==
    [][\A c \in Calls :
          (mp_call[c].pc = "remove_lock_accounts" /\ mp_call'[c].pc = "idle")
              => LET after == [transactions |-> transactions',
                               account_txs |-> account_txs']
                 IN  /\ remove_all(after, mp_call[c].digests) = after
                     /\ DOMAIN account_txs' = DOMAIN account_txs
                     /\ \A sender \in DOMAIN account_txs :
                            account_txs'[sender] =
                                Max(account_txs[sender]
                                      - Cardinality(StoredOf(transactions, sender)
                                                      \ StoredOf(transactions', sender)), 0)]_vars

\* Transaction 1 was admitted and removed while transaction 2 of the same
\* sender stays stored and counted.
C20_Witness ==
    /\ result = Ok("remove_transactions")
    /\ DOMAIN transactions = {2}
    /\ "a" \in DOMAIN account_txs
    /\ account_txs["a"] = 1
    /\ \E pr \in DOMAIN priority_queue :
           \E i \in DOMAIN priority_queue[pr] : priority_queue[pr][i] = 1


\* C21: get_batch(max) returns at most max transactions, by descending
\* priority and, among transactions of equal priority, in the order of
\* their insertion, and none that is older than the timeout.
C21_BatchOrder ==
    [][\A c \in Calls :
          (mp_call[c].pc = "batch_collect" /\ mp_call'[c].pc = "idle")
              => LET batch == result'.value
                     pr(i) == transactions[batch[i]].priority
                     at(i) == transactions[batch[i]].insertion_time
                 IN  /\ Len(batch) <= mp_call[c].arg
                     /\ \A i \in DOMAIN batch : ~ expired(transactions[batch[i]], now)
                     /\ \A i \in DOMAIN batch : \A j \in DOMAIN batch :
                            i < j => \/ pr(i) > pr(j)
                                     \/ pr(i) = pr(j) /\ at(i) <= at(j)]_vars


\* C22: the timeout bounds every pending entry: a submit_transaction call
\* whose transaction was broadcast and whose quorum was not reached ends
\* with the Timeout error, and the pending entry made for it is removed.
C22_QuorumTimeout ==
    \A t \in Tasks :
        (/\ proc[t].pc = "done"
         /\ caller[t].st = "returned"
         /\ caller[t].res \notin {"Ok", "Driver not active", "NetworkError"})
        => /\ caller[t].res = "Timeout"
           /\ \A d \in DOMAIN pending_transactions : pending_transactions[d].sender # t

\* C23: in every reachable state of the quorum driver the pending table
\* holds at most max_pending_transactions entries, whatever the number of
\* submit_transaction calls in flight.
C23_PendingBound ==
    Cardinality(DOMAIN pending_transactions) <= MaxPendingTransactions

\* C24: once update_epoch has advanced the epoch of the authority, every
\* certificate or transaction stamped with an older epoch that arrives
\* afterwards is rejected with the epoch-mismatch error and is not executed:
\* no such call goes on to the validator, and the call that is refused on
\* arrival returns InvalidEpoch and leaves last_sequence as it was.
C24_OldEpochRejected ==
    [][/\ (ht_call.pc = "idle" /\ ht_call'.pc = "execute")
            => ht_call'.tx.epoch >= auth_epoch
       /\ (hc_call.pc = "idle" /\ hc_call'.pc = "verify_signatures")
            => hc_call'.cert.transaction.epoch >= auth_epoch
       /\ (/\ ht_call' = ht_call
           /\ hc_call' = hc_call
           /\ result' # result
           /\ result'.op \in {"handle_certificate", "handle_transaction"}
           /\ result'.arg < auth_epoch)
            => /\ ~ result'.ok
               /\ result'.err = "InvalidEpoch"
               /\ last_sequence' = last_sequence]_vars

\* C24 happens: update_epoch has advanced the epoch, a transaction of the
\* new epoch was executed and one stamped with an older epoch was refused.
C24_Witness ==
    /\ auth_epoch > 0
    /\ last_sequence > 0
    /\ result.op \in {"handle_certificate", "handle_transaction"}
    /\ result.arg < auth_epoch
    /\ result.err = "InvalidEpoch"

\* C25: when execution of a transaction fails, the effects returned by
\* Executor.execute_transaction have status Failure and carry no object
\* mutation: created, modified and deleted are empty.
C25_FailureCarriesNoMutation ==
    (/\ result.op = "Executor.execute_transaction"
     /\ result.ok
     /\ result.value.status = "Failure")
    => /\ result.value.created_objects = {}
       /\ result.value.modified_objects = {}
       /\ result.value.deleted_objects = {}

\* The ids the effects of a checkpoint create, and those they delete.
CreatedIn(c) ==
    UNION { CheckpointEffects[c.content][i].created_objects :
                i \in DOMAIN CheckpointEffects[c.content] }

DeletedIn(c) ==
    UNION { CheckpointEffects[c.content][i].deleted_objects :
                i \in DOMAIN CheckpointEffects[c.content] }

\* C26: get_state_at_checkpoint(sequence) replays the effects of all the
\* checkpoints 0..sequence: an object created by a checkpoint k < sequence
\* and deleted by no later checkpoint up to sequence is in the state.
C26_StateReplaysAll ==
    (result.op = "get_state_at_checkpoint" /\ result.ok) =>
        \A k \in DOMAIN checkpoints : \A id \in CreatedIn(checkpoints[k]) :
            (/\ k < result.arg
             /\ \A j \in DOMAIN checkpoints :
                    (k < j /\ j <= result.arg) => id \notin DeletedIn(checkpoints[j]))
            => id \in result.value

\* C27: get_latest_checkpoint returns the stored checkpoint with the
\* numerically greatest sequence number, for every set of stored sequence
\* numbers.
C27_LatestIsGreatest ==
    (result.op = "get_latest_checkpoint" /\ DOMAIN checkpoints # {}) =>
        /\ IsSome(result.value)
        /\ \A n \in DOMAIN checkpoints : n <= Unwrap(result.value).sequence

\* C28: the digest of a transaction does not depend on its signature and
\* public_key fields, so that sign(keypair) followed by verify_signature()
\* returns true for every transaction.
C28_SignThenVerify ==
    (/\ result.op = "Transaction.verify_signature"
     /\ IsSome(Unwrap(the_transaction).signature))
    => /\ result.ok
       /\ transaction_digest(Unwrap(the_transaction))
              = transaction_digest(TransactionNew(Unwrap(the_transaction).body))

\* C29: the object cache is never a source of truth: after any sequence of
\* put_object, delete_object and get_object calls of the StorageManager,
\* get_object(key) returns what ObjectStore.get(key) returns, for every key.
C29_CacheAgreesWithStore ==
    result.op = "get_object" =>
        result.value[2] = object_get(objects, object_metadata, result.value[1])

\* C30: get(key) right after a successful put(key, value) returns value,
\* also for an id that was deleted earlier, and get(key) right after
\* delete(key) returns none.
C30_PutGetRoundTrip ==
    /\ result.op = "object_put" =>
           object_get(objects, object_metadata, result.value[1]) = Some(result.value[2])
    /\ result.op = "object_delete" =>
           object_get(objects, object_metadata, result.value[1]) = None

\* C31: every submit_transaction call eventually returns to its caller, with
\* the effects or an error, under fair scheduling and a firing timer.
C31_SubmitReturns ==
    \A t \in Tasks : (caller[t].st = "waiting") ~> (caller[t].st = "returned")

\* The lock the next step of a running mempool call takes.
WantedLock(c) ==
    CASE mp_call[c].pc = "add_duplicate"        -> "transactions"
      [] mp_call[c].pc = "add_lock_accounts"    -> "account_txs"
      [] mp_call[c].pc = "add_insert"           -> "transactions"
      [] mp_call[c].pc = "add_push"             -> "priority_queue"
      [] mp_call[c].pc = "batch_collect"        -> "transactions"
      [] mp_call[c].pc = "gc_lock"              -> "transactions"
      [] mp_call[c].pc = "remove_lock_transactions" -> "transactions"
      [] mp_call[c].pc = "remove_lock_accounts" -> "account_txs"

\* A running call whose next lock is held by another call.
WaitsForLock(c) ==
    /\ mp_call[c].pc # "idle"
    /\ mp_locks[WantedLock(c)] \notin {0, c}

\* C32: the mempool is deadlock-free: no state is reachable in which each
\* call of a set of running calls waits for a lock held by another call of
\* the set.
C32_NoDeadlock ==
    ~ \E S \in SUBSET Calls :
          /\ S # {}
          /\ \A c \in S : WaitsForLock(c) /\ mp_locks[WantedLock(c)] \in S

\* C33: garbage_collect terminates: a call run with no other mempool
\* operation in progress eventually returns.
C33_GcTerminates ==
    \A c \in Calls :
        (/\ mp_call[c].pc = "gc_lock"
         /\ \A o \in Calls \ {c} : mp_call[o].pc = "idle")
        ~> (mp_call[c].pc = "idle")

\* The digests in the priority queue.
QueuedDigests(q) == { QueueDescending(q)[i] : i \in DOMAIN QueueDescending(q) }

\* C34: no admitted transaction is stranded: a queued transaction that is
\* stored and unexpired and that a get_batch call leaves out of its result
\* (the batch being full) is still in the priority queue when the call
\* returns, where a later get_batch finds it.
C34_LeftOutStaysQueued ==
    [][\A c \in Calls :
          (mp_call[c].pc = "batch_collect" /\ mp_call'[c].pc = "idle")
              => LET batch == result'.value
                     returned == { batch[i] : i \in DOMAIN batch }
                 IN  \A d \in QueuedDigests(priority_queue) :
                         (/\ d \in DOMAIN transactions
                          /\ ~ expired(transactions[d], now)
                          /\ d \notin returned)
                             => d \in QueuedDigests(priority_queue')]_vars

\* C35: the TransactionManager executes each submitted transaction at most
\* once: whatever the interleaving of execute_transaction calls, the
\* executor is invoked at most once for a digest.
C35_ExecutedAtMostOnce ==
    \A d \in ManagerDigests : executions[d] <= 1

\* C36: the status never stays Processing once execute_transaction has
\* returned: when the executor returns an error, the status recorded in the
\* storage is Failed and the entry has left the processing table.
C36_FailureRecorded ==
    [][\A c \in ManagerCalls :
          (/\ tm_call[c].pc = "execute"
           /\ tm_call'[c].pc = "idle"
           /\ result'.err = "ExecutionError")
              => /\ tm_storage'[tm_call[c].digest].status = "Failed"
                 /\ tm_call[c].digest \notin DOMAIN processing']_vars

\* C37: the current committee belongs to the current epoch, under any
\* interleaving of prepare_next_epoch and start_new_epoch calls.
C37_CommitteeOfCurrentEpoch ==
    current_epoch.committee.epoch = current_epoch.epoch

\* C38: the children index of the Dag mirrors the parent references: for
\* any two stored nodes p and c, c is among the children of p exactly when
\* p is among the parents of c's proposal.
C38_ChildrenMirrorParents ==
    \A p \in DOMAIN nodes : \A c \in DOMAIN nodes :
        (c \in nodes[p].children) <=> (p \in nodes[c].proposal.parents)

\* C39: last_committed_round never decreases: after a process_proposal
\* call its value is greater than or equal to its value before the call.
C39_CommittedRoundMonotone ==
    [][state'.last_committed_round >= state.last_committed_round]_vars

\* C40: a process_proposal call that returns an error leaves the DAG and
\* the consensus state as they were; in particular the proposal is not
\* left in the DAG when the certificate of a commit candidate fails.
\* The call stores its proposal at the step that takes the lock of the DAG;
\* an error it returns after that step must not leave the proposal there.
C40_ErrorLeavesNoTrace ==
    [][(pp_call.pc \in {"sign_rounds", "sign_locked"} /\ pp_call'.pc = "idle"
            /\ ~ result'.ok)
          => ProposalDigest(pp_call.p) \notin DOMAIN nodes']_vars
====
